---- MODULE Spec2Model ----
(***************************************************************************)
(* A model of pyrex / pyrepcon: experiment configs, the materialization of *)
(* an experiment directory, its validation and its run.                    *)
(*                                                                         *)
(* Strings are sequences of atoms.  An atom of a path is the separator     *)
(* "/", or a piece of a file name ("a", "..", ".").  pathlib splits a path *)
(* at the separators; neighbouring name atoms form one segment, so that    *)
(* <<"..", "a">> is the single segment "..a" and not a parent reference.   *)
(***************************************************************************)
EXTENDS Integers, Sequences, FiniteSets, TLC

(***************************************************************************)
(* Bounds of the model.                                                    *)
(***************************************************************************)
MaxPathLen == 2
MaxFiles == 2
MaxRequired == 1

(***************************************************************************)
(* Generic helpers: Python list and str operations.                        *)
(***************************************************************************)
Range(s) == {s[i] : i \in DOMAIN s}

SeqsUpTo(S, n) == UNION {[1..k -> S] : k \in 0..n}

\* every list that holds each element of the set S exactly once
ListsOf(S) == {s \in [1..Cardinality(S) -> S] : Range(s) = S}

\* list.remove(x): drops the first occurrence of x (x is in s)
RemoveFirst(s, x) ==
    LET i == CHOOSE k \in DOMAIN s : s[k] = x /\ \A j \in 1..(k - 1) : s[j] # x
    IN  SubSeq(s, 1, i - 1) \o SubSeq(s, i + 1, Len(s))

\* sep.join(list) for strings that are sequences of atoms
RECURSIVE Join(_, _)
Join(sep, list) ==
    IF list = <<>> THEN <<>>
    ELSE IF Len(list) = 1 THEN list[1]
    ELSE list[1] \o sep \o Join(sep, Tail(list))

\* str.strip(): leading and trailing blanks removed
RECURSIVE LStrip(_)
LStrip(s) == IF s # <<>> /\ s[1] = " " THEN LStrip(Tail(s)) ELSE s

RECURSIVE RStrip(_)
RStrip(s) ==
    IF s # <<>> /\ s[Len(s)] = " " THEN RStrip(SubSeq(s, 1, Len(s) - 1)) ELSE s

Strip(s) == RStrip(LStrip(s))

(***************************************************************************)
(* pathlib.PurePosixPath, as far as the program uses it.                   *)
(***************************************************************************)
\* the pieces of s between separators (empty pieces included)
RECURSIVE SplitSep(_, _)
SplitSep(s, cur) ==
    IF s = <<>> THEN <<cur>>
    ELSE IF s[1] = "/" THEN <<cur>> \o SplitSep(Tail(s), <<>>)
    ELSE SplitSep(Tail(s), Append(cur, s[1]))

IsCurDir(seg) == seg = <<".">>
IsParentDir(seg) == seg = <<"..">> \/ seg = <<".", ".">>

\* Path.is_absolute()
IsAbsolute(s) == s # <<>> /\ s[1] = "/"

\* Path.parts without the root: empty and "." segments are dropped
Parts(s) ==
    LET pieces == SplitSep(s, <<>>)
    IN  SelectSeq(pieces, LAMBDA seg : seg # <<>> /\ ~IsCurDir(seg))

\* ".." in path.parts
HasParentRef(s) == \E i \in DOMAIN Parts(s) : IsParentDir(Parts(s)[i])

(***************************************************************************)
(* Experiment configs.                                                     *)
(***************************************************************************)
NoConfig == [exc |-> "unset", msg |-> "", command |-> <<>>, files |-> <<>>]

ConfigError(msg) ==
    [exc |-> "InvalidExperimentError", msg |-> msg, command |-> <<>>, files |-> <<>>]

ConfigOk(command, files) ==
    [exc |-> "none", msg |-> "", command |-> command, files |-> files]

\* a construction that does not look for ".." in the parts of the paths
ExperimentConfigKeepsParent(command, files, exec_dir) ==
    LET cmd == Strip(command)
        paths == Append(files, exec_dir)
    IN  IF cmd = <<>> THEN {ConfigError("command")}
        ELSE IF \E i \in DOMAIN paths : IsAbsolute(paths[i])
        THEN {ConfigError("absolute")}
        ELSE {ConfigOk(cmd, fl) : fl \in ListsOf(Range(files))}

\* pyrex.experiment.ExperimentConfig.__post_init__: the instances a
\* construction can yield (list(set(...)) fixes no order), or the error
ExperimentConfig(command, files, exec_dir) ==
    LET cmd == Strip(command)
        paths == Append(files, exec_dir)
    IN  IF cmd = <<>> THEN {ConfigError("command")}
        ELSE IF \E i \in DOMAIN paths : IsAbsolute(paths[i])
        THEN {ConfigError("absolute")}
        ELSE IF \E i \in DOMAIN paths : HasParentRef(paths[i])
        THEN {ConfigError("parent")}
        ELSE {ConfigOk(cmd, fl) : fl \in ListsOf(Range(files))}

\* pyrepcon.config.ExperimentConfig.__post_init__
RepconExperimentConfig(command, working_dir) ==
    IF command = <<>> THEN {ConfigError("command")}
    ELSE IF \E i \in DOMAIN working_dir : IsAbsolute(working_dir[i])
    THEN {ConfigError("absolute")}
    ELSE IF \E i \in DOMAIN working_dir : HasParentRef(working_dir[i])
    THEN {ConfigError("parent")}
    ELSE IF Len(working_dir) # Cardinality(Range(working_dir))
    THEN {ConfigError("duplicates")}
    ELSE {ConfigOk(command, working_dir)}

(***************************************************************************)
(* The file system the program works on: the source directory of the       *)
(* workspace (read only) and one experiment directory, the destination.    *)
(***************************************************************************)
A == <<"a">>
D == <<"d">>
DC == <<"d", "/", "c">>
X == <<"x">>
EXPERIMENT_CONFIG_FILE == <<"pyrex_experiment.json">>
GITIGNORE == <<".gitignore">>
COMMAND_FILE == <<"COMMAND.txt">>

\* the directories a relative path lies in: d for d/c
ParentDirs(p) ==
    {Join(<<"/">>, SubSeq(Parts(p), 1, k)) : k \in 1..(Len(Parts(p)) - 1)}

\* the source trees looked at: a is a file or missing, d is a directory
\* with or without the file c in it
SourceTrees == [files : SUBSET {A, DC}, dirs : {{D}}]

\* the destination: what it is, the files and directories under it, and
\* the contents of the two provenance files
NoDir ==
    [kind |-> "none", files |-> {}, dirs |-> {}, gitignore |-> <<>>,
     config |-> NoConfig]

EmptyDir == [NoDir EXCEPT !.kind = "dir"]

\* [f for f in dest.iterdir()]
HasEntries(f) == f.files # {} \/ f.dirs # {}

\* dest.mkdir(exist_ok=True, parents=True) on a directory or a missing path
Mkdir(f) == IF f.kind = "none" THEN EmptyDir ELSE f

\* dest.joinpath(file).parent.mkdir(...); shutil.copy(src / file, dest / file)
CopyFile(f, p) ==
    [f EXCEPT !.files = @ \cup {p}, !.dirs = @ \cup ParentDirs(p)]

RECURSIVE CopyFiles(_, _)
CopyFiles(f, list) ==
    IF list = <<>> THEN f ELSE CopyFiles(CopyFile(f, Head(list)), Tail(list))

\* the lines of a text: its pieces between newlines, a last newline ends
\* the last line
RECURSIVE SplitLines(_, _)
SplitLines(s, cur) ==
    IF s = <<>> THEN (IF cur = <<>> THEN <<>> ELSE <<cur>>)
    ELSE IF s[1] = "\n" THEN <<cur>> \o SplitLines(Tail(s), <<>>)
    ELSE SplitLines(Tail(s), Append(cur, s[1]))

Lines(s) == SplitLines(s, <<>>)

Result(exc, f) == [exc |-> exc, fs |-> f]

\* gitignore = "*\n" + "\n!".join(config.files)
GitignoreText(files) == <<"*", "\n">> \o Join(<<"\n", "!">>, files)

\* a record of the config as it was given, without the two names
ConfigRecordPlain(config) == ConfigOk(config.command, config.files)

\* asdict(config); config["files"].extend([cls.config_file, ".gitignore"])
ConfigRecord(config) ==
    ConfigOk(config.command,
             config.files \o <<EXPERIMENT_CONFIG_FILE, GITIGNORE>>)

\* pyrex.experiment.Experiment.create(src, config, prompt); `proceed` is
\* FALSE when the user declines the confirmation prompt
ExperimentCreate(source, config, f, proceed) ==
    IF f.kind = "file" THEN Result("NotADirectoryError", f)
    ELSE IF f.kind = "dir" /\ HasEntries(f) THEN Result("FileExistsError", f)
    ELSE IF \E i \in DOMAIN config.files : config.files[i] \notin source.files
    THEN Result("FileNotFoundError", f)
    ELSE IF ~proceed THEN Result("Abort", f)
    ELSE LET copied == CopyFiles(Mkdir(f), config.files)
             ignored == [copied EXCEPT !.files = @ \cup {GITIGNORE},
                                       !.gitignore = GitignoreText(config.files)]
             stamped == [ignored EXCEPT !.files = @ \cup {EXPERIMENT_CONFIG_FILE},
                                        !.config = ConfigRecord(config)]
         IN  Result("none", stamped)

\* Path(file).name: the last segment
Name(p) == IF Parts(p) = <<>> THEN <<>> ELSE Parts(p)[Len(Parts(p))]

\* shutil.copytree(src, dest) of the source directory p with all under it
CopyTree(f, source, p) ==
    LET under == {q \in source.files : p \in ParentDirs(q)}
    IN  [f EXCEPT !.files = @ \cup under,
                  !.dirs = @ \cup {p} \cup ParentDirs(p)
                             \cup {q \in source.dirs : p \in ParentDirs(q)}]

\* the copy loop of pyrepcon.api.Workspace.create_experiment
RECURSIVE RepconCopy(_, _, _)
RepconCopy(source, list, f) ==
    IF list = <<>> THEN Result("none", f)
    ELSE LET file == Head(list)
             made == [f EXCEPT !.dirs = @ \cup ParentDirs(file)]
         IN  IF file \notin source.files \cup source.dirs
             THEN Result("InvalidExperimentError", f)
             ELSE IF file \in source.files
             THEN RepconCopy(source, Tail(list), CopyFile(f, file))
             ELSE IF file \in f.dirs THEN Result("FileExistsError", made)
             ELSE RepconCopy(source, Tail(list), CopyTree(made, source, file))

INDENT == "        "

RECURSIVE RepconIgnoreLines(_)
RepconIgnoreLines(list) ==
    IF list = <<>> THEN <<>>
    ELSE <<"\n", "!">> \o Name(Head(list)) \o RepconIgnoreLines(Tail(list))

\* the f-string of create_experiment and the lines added per file
RepconGitignoreText(files) ==
    <<"\n", INDENT, "*", "\n", INDENT, "!", "README.*", "\n", INDENT, "!">>
        \o COMMAND_FILE \o <<"\n", INDENT>> \o RepconIgnoreLines(files)

\* pyrepcon.api.Workspace.create_experiment(experiment_config, path)
RepconCreateExperiment(source, config, f) ==
    IF f.kind # "none" THEN Result("FileExistsError", f)
    ELSE LET copied == RepconCopy(source, config.files, EmptyDir)
         IN  IF copied.exc # "none" THEN copied
             ELSE Result("none",
                         [copied.fs EXCEPT
                              !.files = @ \cup {COMMAND_FILE, GITIGNORE},
                              !.gitignore = RepconGitignoreText(config.files)])

(***************************************************************************)
(* Experiment handles, validation of the working directory, and run.       *)
(***************************************************************************)
WORKSPACE_ROOT == <<"/", "w">>
EXPERIMENT_ROOT == <<"/", "w", "/", "out">>
HOME == <<"/", "home">>

\* root.joinpath(name)
JoinPath(root, name) == root \o <<"/">> \o name

\* pyrex.experiment.Experiment.__init__ with ExperimentConfig.load: the
\* handles that opening the directory can give, or the error
ExperimentOpen(f) ==
    IF f.kind # "dir" \/ EXPERIMENT_CONFIG_FILE \notin f.files
    THEN {ConfigError("not an experiment")}
    ELSE ExperimentConfig(f.config.command, f.config.files, <<".">>)

\* the entries directly in the directory dir of the destination (dir is
\* <<>> for its root), by their paths relative to the root
Entries(f, dir) ==
    {p \in f.files \cup f.dirs :
         IF dir = <<>> THEN ParentDirs(p) = {}
         ELSE dir \in ParentDirs(p) /\ Len(Parts(p)) = Len(Parts(dir)) + 1}

\* Experiment._validate_subdir(remaining, subdir): its results over the
\* orders in which subdir.iterdir() can yield the entries `todo`.  A
\* directory entry makes the static method read the name `self`, which it
\* does not have; list.remove raises ValueError for an absent element.
RECURSIVE ValidateSubdir(_, _, _)
ValidateSubdir(remaining, todo, f) ==
    IF todo = {} THEN {[exc |-> "none", remaining |-> remaining]}
    ELSE UNION {
        LET entry == JoinPath(EXPERIMENT_ROOT, e)
        IN  IF e \in f.dirs
            THEN {[exc |-> "NameError", remaining |-> remaining]}
            ELSE IF entry \notin Range(remaining)
            THEN {[exc |-> "ValueError", remaining |-> remaining]}
            ELSE ValidateSubdir(RemoveFirst(remaining, entry), todo \ {e}, f)
        : e \in todo}

\* a validation that only looks for the files of the manifest
ValidateWorkdirAdvisory(files, f) ==
    IF Range(files) \subseteq f.files THEN {"none"} ELSE {"InvalidExperimentError"}

\* Experiment.validate_workdir(): the exceptions it can raise, "none" where
\* it returns; self.files are the paths of the config, relative as stored
ValidateWorkdir(files, f) ==
    {IF r.exc = "ValueError" THEN "InvalidExperimentError"
     ELSE IF r.exc # "none" THEN r.exc
     ELSE IF r.remaining # <<>> THEN "InvalidExperimentError"
     ELSE "none" : r \in ValidateSubdir(files, Entries(f, <<>>), f)}

\* switch_dir.__init__: assert self.new.is_dir()
SwitchDirInit(f) == IF f.kind = "dir" THEN "none" ELSE "AssertionError"

\* switch_dir.__enter__: self.old = cwd; os.chdir(self.new)
SwitchDirEnter(st, new) == [cwd |-> new, saved |-> Append(st.saved, st.cwd)]

\* an exit that goes back only when the block raised nothing
SwitchDirExitOnSuccess(st, raised) ==
    [cwd |-> IF raised = "none" THEN st.saved[Len(st.saved)] ELSE st.cwd,
     saved |-> SubSeq(st.saved, 1, Len(st.saved) - 1)]

\* an exit that goes back to where the outermost block was entered
SwitchDirExitOriginal(st, raised) ==
    [cwd |-> st.saved[1],
     saved |-> SubSeq(st.saved, 1, Len(st.saved) - 1)]

\* switch_dir.__exit__: os.chdir(self.old), whatever the block raised
SwitchDirExit(st, raised) ==
    [cwd |-> st.saved[Len(st.saved)],
     saved |-> SubSeq(st.saved, 1, Len(st.saved) - 1)]

(***************************************************************************)
(* Output path templates and the workspace's create_experiment.            *)
(***************************************************************************)
WORKSPACE_CONFIG_FILE == <<".pyrex_workspace.yaml">>
SUMMARY_FILE == <<".pyrex_experiment.yaml">>
README == <<"README.rst">>
GENERATED == <<"generated">>

\* str.replace(token, value): every atom `token` of s becomes `value`
RECURSIVE Replace(_, _, _)
Replace(s, token, value) ==
    IF s = <<>> THEN <<>>
    ELSE (IF s[1] = token THEN value ELSE <<s[1]>>)
             \o Replace(Tail(s), token, value)

\* `token in path`
Has(s, token) == token \in Range(s)

\* what git and the workspace tell about the place: in a git repository
\* or not, its root, the branch, the version command's output
Contexts ==
    [ingit : BOOLEAN, repo_root : {WORKSPACE_ROOT}, branch : {<<"main">>},
     workspace_root : {WORKSPACE_ROOT}, version : {<<"1">>},
     author : {<<"me">>}]

\* str(self.get_repo_root()): the root, or the text of None
RepoRootText(ctx) == IF ctx.ingit THEN ctx.repo_root ELSE <<"None">>

Resolved(exc, path) == [exc |-> exc, path |-> path]

\* the template was not resolved
NotParsed == Resolved("unreached", <<>>)

Created(exc, f, parsed) == [exc |-> exc, fs |-> f, parsed |-> parsed]

\* a resolution that takes the template's workspace root and asks nothing
\* of the path
ParseExperimentPathAnyPath(template, ctx) ==
    Resolved("none", Replace(template, "{workspace_root}", ctx.workspace_root))

\* a resolution that refuses a template with a token it does not know
ParseExperimentPathStrict(template, ctx) ==
    IF Has(template, "{bogus}") THEN Resolved("KeyError", template)
    ELSE Resolved("none", Replace(template, "{workspace_root}", ctx.workspace_root))

\* pyrex.workspace.PyrexWorkspace.parse_experiment_path(template): the
\* replacements in the order of the code.  get_worktree_root is no method of
\* the class and pyrex.utils has no timestamp; get_branch() is None outside
\* a git repository, which str.replace does not take.
ParseExperimentPath(template, ctx) ==
    LET p1 == IF Has(template, "{repo_root}")
              THEN Replace(template, "{repo_root}", RepoRootText(ctx))
              ELSE template
        p2 == IF Has(p1, "{workspace_root}")
              THEN Replace(p1, "{workspace_root}", ctx.workspace_root)
              ELSE p1
        p4 == IF Has(p2, "{workspace_name}")
              THEN Replace(p2, "{workspace_name}", Name(ctx.workspace_root))
              ELSE p2
        p5 == IF Has(p4, "{branch}") THEN Replace(p4, "{branch}", ctx.branch)
              ELSE p4
        p6 == IF Has(p5, "{version}") THEN Replace(p5, "{version}", ctx.version)
              ELSE p5
    IN  IF Has(p2, "{repo_name}") THEN Resolved("AttributeError", p2)
        ELSE IF Has(p4, "{branch}") /\ ~ctx.ingit THEN Resolved("TypeError", p4)
        ELSE IF Has(p6, "{timestamp}") THEN Resolved("AttributeError", p6)
        ELSE IF ~IsAbsolute(p6) THEN Resolved("InvalidPathError", p6)
        ELSE Resolved("none", p6)

\* the chain of replacements of pyrex.scripts.experiment.create; outside a
\* git repository repo.root is None, which str.replace does not take
ScriptOutputPath(template, experiment_name, ctx) ==
    LET p1 == Replace(template, "{workspace_root}", ctx.workspace_root)
        p2 == Replace(p1, "{workspace_name}", Name(ctx.workspace_root))
        p3 == Replace(p2, "{version}", ctx.version)
        p4 == Replace(p3, "{repo_root}", ctx.repo_root)
        p5 == Replace(p4, "{repo_name}", Name(ctx.repo_root))
        p6 == Replace(p5, "{branch}", ctx.branch)
        p7 == Replace(p6, "{author}", ctx.author)
        p8 == Replace(p7, "{name}", experiment_name)
    IN  IF ~ctx.ingit THEN Resolved("TypeError", p3)
        ELSE IF ~IsAbsolute(p8) THEN Resolved("InvalidPathError", p8)
        ELSE Resolved("none", p8)

\* the two paths name the same place
SamePath(p, q) == IsAbsolute(p) = IsAbsolute(q) /\ Parts(p) = Parts(q)

\* experiment_config.gitignore() of the config class this workspace was
\* written against: a line * and a line !path per required file
SpecGitignoreText(files) ==
    <<"*">> \o Join(<<>>, [i \in DOMAIN files |-> <<"\n", "!">> \o files[i]])

\* pyrex.workspace.PyrexWorkspace.create_experiment: `known` says whether
\* the name is one of the config's experiments, `explicit` whether the
\* caller gave experiment_path (the destination, EXPERIMENT_ROOT when
\* given), `proceed` whether the user confirms; `parsed` is the path the
\* operation chose
WorkspaceCreateExperiment(source, config, f, known, explicit, template, ctx, proceed) ==
    LET parsed == IF ~known THEN NotParsed
                  ELSE IF explicit THEN Resolved("none", EXPERIMENT_ROOT)
                  ELSE ParseExperimentPath(template, ctx)
    IN  IF ~known THEN Created("InvalidExperimentError", f, parsed)
        ELSE IF parsed.exc \notin {"none", "unreached"}
        THEN Created(parsed.exc, f, parsed)
        ELSE IF f.kind = "file" THEN Created("NotADirectoryError", f, parsed)
        ELSE IF f.kind = "dir" /\ HasEntries(f)
        THEN Created("FileExistsError", f, parsed)
        ELSE IF \E i \in DOMAIN config.files : config.files[i] \notin source.files
        THEN Created("FileNotFoundError", f, parsed)
        \* _workspace_path: new_path.is_relative_to(None) outside a repository
        ELSE IF ~ctx.ingit THEN Created("TypeError", f, parsed)
        ELSE IF ~proceed THEN Created("Abort", f, parsed)
        ELSE LET copied == CopyFiles(Mkdir(f), config.files)
             IN  Created("none",
                         [copied EXCEPT
                              !.files = @ \cup {WORKSPACE_CONFIG_FILE, GITIGNORE, README},
                              !.gitignore = SpecGitignoreText(config.files)],
                         parsed)

\* the project generator called by the script: it makes the experiment's
\* directory under the output path, and refuses if that directory exists
Generate(f) ==
    IF f.kind = "file" THEN Result("NotADirectoryError", f)
    ELSE IF GENERATED \in f.dirs \cup f.files
    THEN Result("OutputDirExistsException", f)
    ELSE Result("none", [Mkdir(f) EXCEPT !.dirs = @ \cup {GENERATED}])

\* pyrex.scripts.experiment.create, without --run; `explicit` says whether
\* --output was given (click resolves it to an absolute path)
ScriptCreate(source, config, f, explicit, template, ctx, proceed) ==
    LET checked == \A i \in DOMAIN config.files : config.files[i] \in source.files
        parsed == IF ~checked THEN NotParsed
                  ELSE ScriptOutputPath(IF explicit THEN EXPERIMENT_ROOT ELSE template,
                                        <<"trial">>, ctx)
        made == Generate(f)
        files == [i \in DOMAIN config.files |-> JoinPath(GENERATED, config.files[i])]
    IN  IF \E i \in DOMAIN config.files :
               config.files[i] \notin source.files \cup source.dirs
        THEN Created("InvalidConfigError", f, parsed)
        ELSE IF ~checked THEN Created("InvalidConfigError", f, parsed)
        ELSE IF parsed.exc # "none" THEN Created(parsed.exc, f, parsed)
        ELSE IF ~proceed THEN Created("Abort", f, parsed)
        ELSE IF made.exc # "none" THEN Created(made.exc, f, parsed)
        ELSE Created("none",
                     [CopyFiles(made.fs, files) EXCEPT
                          !.files = @ \cup {JoinPath(GENERATED, SUMMARY_FILE)}],
                     parsed)

\* pyrepcon.api.Workspace.get_default_experiment_path(experiment_name): the
\* template is the config's named_experiments_path.  _get_branch calls
\* utils.run_command and {timestamp} calls utils.timestamp, which
\* pyrepcon.utils does not define; the pieces of the path are joined under
\* the workspace root, so every result is absolute
DefaultExperimentPath(template, experiment_name, ctx) ==
    LET p1 == template
        p2 == IF Has(p1, "{version}") THEN Replace(p1, "{version}", ctx.version)
              ELSE p1
        p3 == IF Has(p2, "{name}") THEN Replace(p2, "{name}", experiment_name)
              ELSE p2
    IN  IF Has(p1, "{branch}") THEN Resolved("AttributeError", p1)
        ELSE IF Has(p3, "{timestamp}") THEN Resolved("AttributeError", p3)
        ELSE Resolved("none",
                      Join(<<"/">>, <<ctx.workspace_root>> \o Parts(p3)))

\* pyrepcon.api.Workspace.create_named_experiment(name, path): `explicit`
\* says whether the caller gave path (EXPERIMENT_ROOT when given).  The
\* conditional takes pathlib.Path(path) when path is None and the default
\* path otherwise; the class has no method `experiment`
CreateNamedExperiment(f, known, explicit, template, experiment_name, ctx) ==
    LET parsed == IF ~known THEN NotParsed
                  ELSE IF ~explicit THEN Resolved("TypeError", <<>>)
                  ELSE DefaultExperimentPath(template, experiment_name, ctx)
    IN  IF ~known THEN Created("KeyError", f, parsed)
        ELSE IF parsed.exc # "none" THEN Created(parsed.exc, f, parsed)
        ELSE Created("AttributeError", f, parsed)

\* the three places that resolve a template
TemplateResolvers ==
    {"PyrexWorkspace.parse_experiment_path", "scripts.experiment.create",
     "Workspace.get_default_experiment_path"}

\* the text of the time `clock`
Stamp(clock) == <<"t0", "t1", "t2", "t3">>[clock + 1]

\* a resolver that stamps the time of the call into the path
ResolveTemplateStamped(kind, template, experiment_name, ctx, clock) ==
    Resolved("none", Replace(template, "{timestamp}", <<Stamp(clock)>>))

\* one call of a resolver at the time `clock`.  None of the three reads the
\* time: the only token for it, {timestamp}, is handed to utils.timestamp,
\* which neither utils module defines, and the script has no such token
ResolveTemplate(kind, template, experiment_name, ctx, clock) ==
    IF kind = "PyrexWorkspace.parse_experiment_path"
    THEN ParseExperimentPath(template, ctx)
    ELSE IF kind = "scripts.experiment.create"
    THEN ScriptOutputPath(template, experiment_name, ctx)
    ELSE DefaultExperimentPath(template, experiment_name, ctx)

(***************************************************************************)
(* Detecting the git repository.  A value is a tuple of texts, "None" for  *)
(* Python's None.                                                          *)
(***************************************************************************)
\* subprocess.run(["git", "-C", where, *args]): the exit status and stdout.
\* Outside a working tree every command exits with 128; before the first
\* commit HEAD names no revision; diff-index --quiet exits with 1 when
\* there are changes
GitProcess(env, args) ==
    IF ~env.inside THEN [status |-> 128, stdout |-> ""]
    ELSE IF args = "rev-parse --show-toplevel" THEN [status |-> 0, stdout |-> "/w"]
    ELSE IF env.commits = 0 THEN [status |-> 128, stdout |-> ""]
    ELSE IF args = "rev-parse --abbrev-ref HEAD"
    THEN [status |-> 0, stdout |-> env.branch]
    ELSE IF args = "rev-parse HEAD" THEN [status |-> 0, stdout |-> "c1"]
    ELSE [status |-> IF env.dirty THEN 1 ELSE 0, stdout |-> ""]

\* what a detection gave: the error or the value, and whether a git call
\* of it exited with a status other than 0
Detected(exc, value, failed) == [exc |-> exc, value |-> value, failed |-> failed]

\* pyrex.utils.git_run_command(*args, where=where): check=True
GitRunCommand(env, args) ==
    LET p == GitProcess(env, args)
    IN  IF p.status # 0 THEN Detected("GitError", <<>>, TRUE)
        ELSE Detected("none", <<p.stdout>>, FALSE)

\* get_repo_root, get_branch and get_commit of PyrexWorkspace: GitError is
\* caught and None returned
WorkspaceDetect(env, args) ==
    LET r == GitRunCommand(env, args)
    IN  IF r.exc = "GitError" THEN Detected("none", <<"None">>, TRUE) ELSE r

\* pyrex.config.RepoConfig.detect(where): only the call for the root is in
\* the try block
RepoConfigDetect(env) ==
    LET root == GitRunCommand(env, "rev-parse --show-toplevel")
        branch == GitRunCommand(env, "rev-parse --abbrev-ref HEAD")
        commit == GitRunCommand(env, "rev-parse HEAD")
    IN  IF root.exc = "GitError"
        THEN Detected("none", <<"None", "None", "None", "None">>, TRUE)
        ELSE IF branch.exc = "GitError" THEN branch
        ELSE IF commit.exc = "GitError" THEN commit
        ELSE Detected("none", root.value \o <<"w">> \o branch.value \o commit.value,
                      FALSE)

\* pyrex.utils.repo_is_dirty(where): check=True, and bool(result.returncode)
\* of a call that did not raise
RepoIsDirty(env) ==
    LET p == GitProcess(env, "diff-index --quiet HEAD --")
    IN  IF p.status # 0 THEN Detected("GitError", <<>>, TRUE)
        ELSE Detected("none", <<"False">>, FALSE)

\* the detection operations
Detections ==
    {"PyrexWorkspace.get_repo_root", "PyrexWorkspace.get_branch",
     "PyrexWorkspace.get_commit", "RepoConfig.detect", "repo_is_dirty"}

Detect(op, env) ==
    IF op = "PyrexWorkspace.get_repo_root"
    THEN WorkspaceDetect(env, "rev-parse --show-toplevel")
    ELSE IF op = "PyrexWorkspace.get_branch"
    THEN WorkspaceDetect(env, "rev-parse --abbrev-ref HEAD")
    ELSE IF op = "PyrexWorkspace.get_commit"
    THEN WorkspaceDetect(env, "rev-parse HEAD")
    ELSE IF op = "RepoConfig.detect" THEN RepoConfigDetect(env)
    ELSE RepoIsDirty(env)

(***************************************************************************)
(* Collections of named entries.  A collection is a dict from names to     *)
(* values; Added is what a call that adds an entry leaves and raises.      *)
(***************************************************************************)
Added(exc, elements) == [exc |-> exc, elements |-> elements]

\* dict.update({key: value})
Update(elements, key, value) ==
    [k \in DOMAIN elements \cup {key} |-> IF k = key THEN value ELSE elements[k]]

\* key.replace(" ", "-")
Slug(key) == Replace(key, " ", <<"-">>)

\* pyrex.containers.JSONConfigFile.__setitem__(key, value), with
\* illegal_keys = [""]: the elements are updated, and then _update() tries
\* json.dumps on them before it writes the file
JSONConfigFileSetItem(elements, key, value) ==
    IF Slug(key) = <<>> THEN Added("KeyError", elements)
    ELSE IF Slug(key) \in DOMAIN elements THEN Added("KeyError", elements)
    ELSE IF value = "obj"
    THEN Added("InvalidTemplateError", Update(elements, Slug(key), value))
    ELSE Added("none", Update(elements, Slug(key), value))

\* pyrex.config.HomogeneousConfigCollection.__setitem__(key, value), with
\* illegal_keys = []: no key is illegal
HomogeneousSetItem(elements, key, value) ==
    IF value = "obj" THEN Added("TypeError", elements)
    ELSE IF Slug(key) \in {} THEN Added("KeyError", elements)
    ELSE IF Slug(key) \in DOMAIN elements THEN Added("KeyError", elements)
    ELSE Added("none", Update(elements, Slug(key), value))

\* pyrepcon.config.WorkspaceConfig.add_named_experiment(name, config)
AddNamedExperiment(elements, name, value) ==
    IF name = <<>> THEN Added("InvalidExperimentError", elements)
    ELSE IF name \in DOMAIN elements THEN Added("InvalidExperimentError", elements)
    ELSE Added("none", Update(elements, name, value))

\* the classes that hold named entries
Collections ==
    {"JSONConfigFile", "HomogeneousConfigCollection", "WorkspaceConfig"}

AddEntry(kind, elements, key, value) ==
    IF kind = "JSONConfigFile" THEN JSONConfigFileSetItem(elements, key, value)
    ELSE IF kind = "HomogeneousConfigCollection"
    THEN HomogeneousSetItem(elements, key, value)
    ELSE AddNamedExperiment(elements, key, value)

(***************************************************************************)
(* Scanning a directory for the files expected in it.                      *)
(***************************************************************************)
\* check_for_files: break_after
BREAK_AFTER == 10

Scanned(expected, additional) == [expected |-> expected, additional |-> additional]

\* the loop of pyrex.utils.check_for_files over the entries iterdir yields,
\* `sub` being the entries of the subdirectory D.  The call for a
\* subdirectory hands on expected and additional; the test of the length
\* comes after every entry, the subdirectory included
RECURSIVE ScanEntries(_, _, _, _)
ScanEntries(entries, sub, expected, additional) ==
    IF entries = <<>> THEN Scanned(expected, additional)
    ELSE LET path == Head(entries)
             r == IF path = D THEN ScanEntries(sub, <<>>, expected, additional)
                  ELSE IF path \in Range(expected)
                  THEN Scanned(RemoveFirst(expected, path), additional)
                  ELSE Scanned(expected, Append(additional, path))
         IN  IF Len(r.additional) > BREAK_AFTER THEN r
             ELSE ScanEntries(Tail(entries), sub, r.expected, r.additional)

\* pyrex.utils.check_for_files(directory, expected, additional)
CheckForFiles(tree, expected, additional) ==
    ScanEntries(tree.top, tree.sub, expected, additional)

(***************************************************************************)
(* Materializing statement by statement, for what a failure on the way     *)
(* leaves behind.                                                          *)
(***************************************************************************)
\* statements that write the config file before the required files
StatementsConfigFirst(op) == <<"mkdir", "config", "copy", "gitignore", "return">>

\* the statements after the checks and the prompt, in the order of
\* Experiment.create and of PyrexWorkspace.create_experiment
Statements(op) ==
    IF op = "Experiment.create"
    THEN <<"mkdir", "copy", "gitignore", "config", "return">>
    ELSE <<"mkdir", "copy", "config", "gitignore", "readme", "return">>

\* the statement after stmt
After(op, stmt) ==
    LET i == CHOOSE k \in DOMAIN Statements(op) : Statements(op)[k] = stmt
    IN  Statements(op)[i + 1]

\* the file that marks the directory: Experiment.is_experiment looks for
\* the experiment's config file, a workspace is found by its own
MarkerFile(op) ==
    IF op = "Experiment.create" THEN EXPERIMENT_CONFIG_FILE
    ELSE WORKSPACE_CONFIG_FILE

\* the text of the config file of a source that is itself an experiment:
\* the config the call is given is the one loaded from it (as in
\* Experiment.clone)
SourceRecord(config) == config

\* what a statement that runs to its end does to the destination; k is the
\* number of files copied so far
Executed(op, stmt, config, f, k) ==
    IF stmt = "mkdir" THEN Mkdir(f)
    ELSE IF stmt = "copy"
    THEN LET copied == CopyFile(f, config.files[k + 1])
         IN  IF config.files[k + 1] = EXPERIMENT_CONFIG_FILE
             THEN [copied EXCEPT !.config = SourceRecord(config)]
             ELSE copied
    ELSE IF stmt = "gitignore"
    THEN [f EXCEPT !.files = @ \cup {GITIGNORE},
                   !.gitignore = IF op = "Experiment.create"
                                 THEN GitignoreText(config.files)
                                 ELSE SpecGitignoreText(config.files)]
    ELSE IF stmt = "config"
    THEN IF op = "Experiment.create"
         THEN [f EXCEPT !.files = @ \cup {EXPERIMENT_CONFIG_FILE},
                        !.config = ConfigRecord(config)]
         ELSE [f EXCEPT !.files = @ \cup {WORKSPACE_CONFIG_FILE}]
    ELSE [f EXCEPT !.files = @ \cup {README}]

\* what a statement that opens a file and then fails can leave: nothing,
\* or the file without its text
Opened(op, stmt, f) ==
    IF stmt = "gitignore" THEN {f, [f EXCEPT !.files = @ \cup {GITIGNORE}]}
    ELSE IF stmt = "config" THEN {f, [f EXCEPT !.files = @ \cup {MarkerFile(op)}]}
    ELSE IF stmt = "readme" THEN {f, [f EXCEPT !.files = @ \cup {README}]}
    ELSE {f}

\* a failure that takes the destination back to what it was before the call
RaisedRollsBack(f, original) == original

\* the exception of a statement leaves the function: no statement of
\* either function is in a try block, and nothing is removed
RaisedLeaves(f, original) == f

(***************************************************************************)
(* Paths as pathlib holds them: an absolute path is the sequence of its    *)
(* components below the root, a relative path a sequence of components     *)
(* and "..".  The directories have no symbolic links.                      *)
(***************************************************************************)
UP == ".."

\* PurePath.parent: the parent of the root is the root
PathParent(p) == IF p = <<>> THEN <<>> ELSE SubSeq(p, 1, Len(p) - 1)

\* PurePath.is_relative_to(q)
IsRelativeTo(p, q) == Len(q) <= Len(p) /\ SubSeq(p, 1, Len(q)) = q

\* PurePath.relative_to(q), for p.is_relative_to(q)
RelativeTo(p, q) == SubSeq(p, Len(q) + 1, Len(p))

RECURSIVE ResolveFrom(_, _)
ResolveFrom(done, rest) ==
    IF rest = <<>> THEN done
    ELSE IF Head(rest) = UP THEN ResolveFrom(PathParent(done), Tail(rest))
    ELSE ResolveFrom(Append(done, Head(rest)), Tail(rest))

\* Path.resolve() of an absolute path
ResolvePath(p) == ResolveFrom(<<>>, p)

\* no steps up at all
NoUps(n) == <<>>

\* [".." for _ in relative.parts], with n the number of parts
Ups(n) == [i \in 1..n |-> UP]

\* p.joinpath("dummy").parents: p, its parent, ... and the root
PathParents(p) == [i \in 1..Len(p) + 1 |-> SubSeq(p, 1, Len(p) + 1 - i)]

\* the first pair (t, f) of itertools.product(parents of to, parents of
\* from_) with t == f: the outer loop is over the parents of `to`
CommonParent(from_, to) ==
    LET hits == {i \in DOMAIN PathParents(to) :
                    \E j \in DOMAIN PathParents(from_) :
                        PathParents(to)[i] = PathParents(from_)[j]}
        first == CHOOSE i \in hits : \A k \in hits : i <= k
    IN  PathParents(to)[first]

Navigated(exc, absolute, got) == [exc |-> exc, absolute |-> absolute, got |-> got]

\* pyrex.utils.compute_relative_path(from_, to), both already resolved
ComputeRelativePath(from_, to) ==
    LET common_parent == CommonParent(from_, to)
    IN  Navigated("none", FALSE,
                  Ups(Len(RelativeTo(from_, common_parent)))
                      \o RelativeTo(to, common_parent))

\* PyrexWorkspace._workspace_path(new_path); ingit is FALSE when
\* get_repo_root() returns None
WorkspacePath(new_path, workspace_root, ingit, repo_root) ==
    IF ~ingit THEN Navigated("TypeError", FALSE, <<>>)
    ELSE IF ~IsRelativeTo(new_path, repo_root)
    THEN Navigated("none", TRUE, ResolvePath(workspace_root))
    ELSE IF ~IsRelativeTo(new_path, workspace_root)
            /\ ~IsRelativeTo(workspace_root, repo_root)
    THEN Navigated("ValueError", FALSE, <<>>)
    ELSE LET path ==
                 IF IsRelativeTo(new_path, workspace_root)
                 THEN Ups(Len(RelativeTo(new_path, workspace_root)))
                 ELSE Ups(Len(RelativeTo(new_path, repo_root)))
                          \o RelativeTo(workspace_root, repo_root)
         IN  IF ResolvePath(new_path \o path) = ResolvePath(workspace_root)
             THEN Navigated("none", FALSE, path)
             ELSE Navigated("AssertionError", FALSE, path)

\* the three search_parents
SearchOps ==
    {"PyrexWorkspace.search_parents", "WorkspaceInput.search_parents",
     "Workspace.search_parents"}

\* the test of `while search_dir.parent.is_relative_to(user)`
SearchGoesOn(search_dir, user) == IsRelativeTo(PathParent(search_dir), user)

(***************************************************************************)
(* Writing a config to its file.  The contents are a dict, here the        *)
(* sequence of its <<key, value>> items; a value is "str", or "obj", an    *)
(* object no dumper can represent, or "cycle", a container holding itself. *)
(***************************************************************************)
MaxEntries == 2

Keys == {"k1", "k2"}
Values == {"str", "obj", "cycle"}

\* the dicts of at most MaxEntries items
Dicts ==
    {c \in SeqsUpTo(Keys \X Values, MaxEntries) :
         \A i, j \in DOMAIN c : c[i][1] = c[j][1] => i = j}

\* what the dumper raises on a value: json.dumps raises TypeError on an
\* object and ValueError on a circular reference; yaml.safe_dump raises
\* RepresenterError on an object and writes a cycle with an alias
DumperError(dumper, value) ==
    IF value = "obj"
    THEN (IF dumper = "json" THEN "TypeError" ELSE "RepresenterError")
    ELSE IF value = "cycle" /\ dumper = "json" THEN "ValueError"
    ELSE "none"

\* the text of the items
RECURSIVE ItemsText(_)
ItemsText(contents) ==
    IF contents = <<>> THEN <<>>
    ELSE <<contents[1][1], ":", contents[1][2]>>
             \o (IF Len(contents) > 1 THEN <<",">> ELSE <<>>)
             \o ItemsText(Tail(contents))

\* dumper(contents): the text, or the exception of the first value the
\* dumper cannot write
Dumped(dumper, contents) ==
    LET bad == {i \in DOMAIN contents : DumperError(dumper, contents[i][2]) # "none"}
        first == CHOOSE i \in bad : \A j \in bad : i <= j
    IN  IF bad = {}
        THEN [exc |-> "none", text |-> <<"{">> \o ItemsText(contents) \o <<"}">>]
        ELSE [exc |-> DumperError(dumper, contents[first][2]), text |-> <<>>]

\* except (TypeError, OverflowError)
Caught(exc) == exc \in {"TypeError", "OverflowError"}

\* what each writer raises in the except clause
WriterError(fn) ==
    IF fn = "dump_config" THEN "InvalidConfigError"
    ELSE IF fn = "JSONConfigFile._update" THEN "InvalidTemplateError"
    ELSE "InvalidWorkspaceError"

Writers == {"dump_config", "JSONConfigFile._update", "WorkspaceConfig.dump"}

\* dump_config takes its dumper, yaml.safe_dump if none is given; the two
\* other writers call json.dumps
DumpersOf(fn) == IF fn = "dump_config" THEN {"yaml", "json"} ELSE {"json"}

NoFile == [exists |-> FALSE, text |-> <<>>]
FileOf(text) == [exists |-> TRUE, text |-> text]

NoStore ==
    [disk |-> NoFile, before |-> NoFile, fn |-> "none", pc |-> "idle",
     cause |-> "none", exc |-> "none", text |-> <<>>, opened |-> FALSE]

\* a writer that opens the file before it serializes
DumpBeginOpenFirst(st, fn, dumper, contents) ==
    LET d == Dumped(dumper, contents)
    IN  [st EXCEPT !.before = st.disk,
                   !.disk = FileOf(<<>>),
                   !.fn = fn,
                   !.opened = TRUE,
                   !.cause = d.exc,
                   !.exc = IF Caught(d.exc) THEN WriterError(fn) ELSE d.exc,
                   !.text = d.text,
                   !.pc = IF d.exc = "none" THEN "open" ELSE "idle"]

\* the try block of the three writers: the contents are serialized; an
\* exception ends the call, otherwise the else clause follows
DumpBegin(st, fn, dumper, contents) ==
    LET d == Dumped(dumper, contents)
    IN  [st EXCEPT !.before = st.disk,
                   !.fn = fn,
                   !.opened = FALSE,
                   !.cause = d.exc,
                   !.exc = IF Caught(d.exc) THEN WriterError(fn) ELSE d.exc,
                   !.text = d.text,
                   !.pc = IF d.exc = "none" THEN "serialized" ELSE "idle"]

\* open(filepath, "w"): the file is there and empty
DumpOpenFile(st) ==
    [st EXCEPT !.disk = FileOf(<<>>), !.opened = TRUE, !.pc = "open"]

\* file.write(contents_str), json.dump(obj, file): the text is in the file
DumpWriteFile(st) ==
    [st EXCEPT !.disk = FileOf(st.text), !.pc = "idle"]

(***************************************************************************)
(* State.                                                                  *)
(***************************************************************************)
VARIABLES
    ec_args,    \* arguments of the last config construction
    ec_out,     \* what the construction gave: an instance or an error
    source,     \* the source directory
    config,     \* the experiment config handed to the materialization
    fs,         \* the destination directory
    pre,        \* the destination before the last materialization began,
                \* until something else writes to it
    lastop,     \* the last operation called
    outcome,    \* the exception it raised, "none" if it returned
    made,       \* "fresh" from a successful Experiment.create until the
                \* directory is touched, then "touched"; "no" before
    exp,        \* the Experiment handle the caller holds
    dir,        \* the process's working directory and the directories
                \* saved by the switch_dir blocks that are open
    pc,         \* where run is: "idle", "block" or "exit"
    call,       \* the current or last run: its arguments, the working
                \* directory at the call, whether the subprocess started
                \* and what the block raised
    req,        \* the last request to a workspace for an experiment: the
                \* template, the git context and what the template gave
    store,      \* a config file, and where the current or last write of
                \* it is
    tpl,        \* a template and its context, and what each resolution
                \* of it gave
    nest,       \* the switch_dir blocks that are open, from the outermost
                \* to the innermost, and the block left last
    git,        \* the place the detection operations look at, and what
                \* each call of one gave
    coll,       \* a collection of named entries, and the last call that
                \* added to it
    scan,       \* a directory, the files expected in it, the list that
                \* check_for_files has as its default, and what each call
                \* returned
    job,        \* a materialization under way: the operation, the
                \* statement it is at, and how it ended
    nav         \* a call that finds a workspace or computes a path to
                \* one, and what it gave

\* the variables of the library-level specifications
libvars == <<tpl, nest, git, coll, scan, job, nav>>
fsvars ==
    <<source, config, fs, pre, lastop, outcome, made, exp, dir, pc, call, req,
      store, libvars>>
ecvars == <<ec_args, ec_out>>
vars == <<ec_args, ec_out, source, config, fs, pre, lastop, outcome, made, exp,
          dir, pc, call, req, store, libvars>>

(***************************************************************************)
(* Specification SpecConfig: constructing experiment configs.              *)
(***************************************************************************)
PathAtoms == {"/", "a", ".."}
PathStrings == SeqsUpTo(PathAtoms, MaxPathLen)
FileLists == SeqsUpTo(PathStrings, MaxFiles)
Commands == {<<>>, <<" ">>, <<"x">>, <<" ", "x", " ">>}
ExecDirs == {<<".">>, <<"..">>}

NoContext ==
    [ingit |-> FALSE, repo_root |-> <<>>, branch |-> <<>>,
     workspace_root |-> <<>>, version |-> <<>>, author |-> <<>>]

Request(explicit, template, ctx, parsed) ==
    [explicit |-> explicit, template |-> template, ctx |-> ctx,
     parsed |-> parsed]

NoRequest == Request(FALSE, <<>>, NoContext, NotParsed)

\* no template is being resolved
NoTemplate ==
    [kind |-> "none", template |-> <<>>, name |-> <<>>, ctx |-> NoContext,
     clock |-> 0, results |-> <<>>]

\* a switch_dir block: where the process was when it was entered, and
\* where it went
Block(from, to) == [from |-> from, to |-> to]

NoNest == [open |-> <<>>, left |-> Block(<<>>, <<>>)]

\* a place: inside a git working tree or not, with how many commits, on
\* which branch, with changes since the last commit or without
Place(inside, commits, branch, dirty) ==
    [inside |-> inside, commits |-> commits, branch |-> branch, dirty |-> dirty]

NoGit == [env |-> Place(FALSE, 0, "", FALSE), results |-> <<>>]

\* a dict without items
EmptyDict == [k \in {} |-> "none"]

NoCollection ==
    [kind |-> "none", elements |-> EmptyDict, before |-> EmptyDict,
     disk |-> EmptyDict, key |-> <<>>, exc |-> "unset"]

\* a directory as iterdir lists it: the entries at the top, and the
\* entries of its subdirectory
Listing(top, sub) == [top |-> top, sub |-> sub]

NoScan ==
    [tree |-> Listing(<<>>, <<>>), expected |-> <<>>, default |-> <<>>,
     results |-> <<>>]

NoJob ==
    [op |-> "none", pc |-> "idle", copied |-> 0, created |-> FALSE,
     exc |-> "none", returned |-> FALSE]

NoNav ==
    [op |-> "none", path |-> <<>>, other |-> <<>>, ingit |-> FALSE,
     repo |-> <<>>, home |-> <<>>, has |-> {}, pyproject |-> {},
     search_dir |-> <<>>, pc |-> "idle", exc |-> "none", absolute |-> FALSE,
     got |-> <<>>]

LibIdle ==
    /\ tpl = NoTemplate /\ nest = NoNest /\ git = NoGit /\ coll = NoCollection
    /\ scan = NoScan /\ job = NoJob /\ nav = NoNav

NoCall ==
    [skip |-> FALSE, cwd |-> <<>>, missing |-> FALSE, unexpected |-> FALSE,
     started |-> FALSE, status |-> 0, raised |-> "none"]

\* the materialization's state while configs are constructed
FsIdle ==
    /\ source = [files |-> {}, dirs |-> {}]
    /\ config = NoConfig
    /\ fs = NoDir
    /\ pre = NoDir
    /\ lastop = "none"
    /\ outcome = "none"
    /\ made = "no"
    /\ exp = NoConfig
    /\ dir = [cwd |-> HOME, saved |-> <<>>]
    /\ pc = "idle"
    /\ call = NoCall
    /\ req = NoRequest

ConfigInit ==
    /\ FsIdle
    /\ store = NoStore
    /\ LibIdle
    /\ ec_args \in [cls : {"none"}, command : Commands, files : FileLists,
                    exec_dir : ExecDirs]
    /\ ec_out = NoConfig

\* ExperimentConfig(command=..., files=..., exec_dir=...) of pyrex.experiment
Construct ==
    /\ ec_args.cls = "none"
    /\ ec_args' = [ec_args EXCEPT !.cls = "pyrex"]
    /\ ec_out' \in ExperimentConfig(ec_args.command, ec_args.files, ec_args.exec_dir)
    /\ UNCHANGED fsvars

\* ExperimentConfig(command=..., working_dir=...) of pyrepcon.config
ConstructRepcon ==
    /\ ec_args.cls = "none"
    /\ ec_args' = [ec_args EXCEPT !.cls = "pyrepcon"]
    /\ ec_out' \in RepconExperimentConfig(ec_args.command, ec_args.files)
    /\ UNCHANGED fsvars

\* dataclasses.replace(config): __init__ and __post_init__ run again on the
\* fields of a pyrex instance; list(set(...)) lists the files anew
Revalidate ==
    /\ ec_args.cls = "pyrex"
    /\ ec_out.exc = "none"
    /\ ec_args' = [cls |-> "dataclasses.replace", command |-> ec_out.command,
                   files |-> ec_out.files, exec_dir |-> ec_args.exec_dir]
    /\ ec_out' \in ExperimentConfig(ec_out.command, ec_out.files, ec_args.exec_dir)
    /\ UNCHANGED fsvars

ConfigNext == Construct \/ ConstructRepcon \/ Revalidate

SpecConfig == ConfigInit /\ [][ConfigNext]_vars

(***************************************************************************)
(* Specification Spec: materializing, validating and running experiments.  *)
(***************************************************************************)
RequiredPaths == {A, D, DC}

\* the valid configs with at most MaxRequired required files
Configs ==
    UNION {ExperimentConfig(<<"x">>, files, <<".">>) :
               files \in SeqsUpTo(RequiredPaths, MaxRequired)}

Init ==
    /\ ec_args = [cls |-> "none", command |-> <<>>, files |-> <<>>, exec_dir |-> <<>>]
    /\ ec_out = NoConfig
    /\ source \in SourceTrees
    /\ config \in Configs
    /\ fs \in {NoDir, EmptyDir, [NoDir EXCEPT !.kind = "file"],
               [EmptyDir EXCEPT !.files = {X}]}
    /\ pre = fs
    /\ lastop = "none"
    /\ outcome = "none"
    /\ made = "no"
    /\ exp = NoConfig
    /\ dir \in [cwd : {HOME, WORKSPACE_ROOT}, saved : {<<>>}]
    /\ pc = "idle"
    /\ call = NoCall
    /\ req = NoRequest
    /\ store = NoStore
    /\ LibIdle

\* the files of the manifest that the directory lacks, and the files of
\* the directory that the manifest lacks
MissingFiles(files, f) == Range(files) \ f.files
UnexpectedFiles(files, f) == f.files \ Range(files)

\* the exit statuses of the command
ExitStatus == {0, 1}

\* what an operation that is not a run leaves alone; the record of the
\* last run is dropped
Quiet ==
    /\ call' = NoCall
    /\ UNCHANGED <<source, config, ecvars, dir, pc, req, store, libvars>>

\* the directory stops being fresh when something else writes to it
Touched == IF made = "fresh" THEN "touched" ELSE made

\* Experiment.create(src, config, prompt): returns cls(dest)
Create ==
    /\ pc = "idle"
    /\ \E proceed \in BOOLEAN :
        LET r == ExperimentCreate(source, config, fs, proceed)
        IN  /\ fs' = r.fs
            /\ pre' = fs
            /\ lastop' = "Experiment.create"
            /\ outcome' = r.exc
            /\ IF r.exc = "none"
               THEN made' = "fresh" /\ exp' \in ExperimentOpen(r.fs)
               ELSE UNCHANGED <<made, exp>>
            /\ Quiet

\* Experiment(root) on the destination
Open ==
    /\ pc = "idle"
    /\ \E e \in ExperimentOpen(fs) :
        /\ outcome' = e.exc
        /\ exp' = IF e.exc = "none" THEN e ELSE exp
    /\ pre' = fs
    /\ lastop' = "Experiment.__init__"
    /\ UNCHANGED <<fs, made>>
    /\ Quiet

\* exp.validate_workdir()
Validate ==
    /\ pc = "idle"
    /\ exp.exc = "none"
    /\ outcome' \in ValidateWorkdir(exp.files, fs)
    /\ pre' = fs
    /\ lastop' = "Experiment.validate_workdir"
    /\ UNCHANGED <<fs, made, exp>>
    /\ Quiet

\* exp.run(skip_validation=skip), up to the entry of the switch_dir block
RunCall ==
    /\ pc = "idle"
    /\ exp.exc = "none"
    /\ \E skip \in BOOLEAN :
       \E checked \in IF skip THEN {"none"} ELSE ValidateWorkdir(exp.files, fs) :
        LET raised == IF checked # "none" THEN checked ELSE SwitchDirInit(fs)
        IN  /\ call' = [skip |-> skip, cwd |-> dir.cwd,
                        missing |-> MissingFiles(exp.files, fs) # {},
                        unexpected |-> UnexpectedFiles(exp.files, fs) # {},
                        started |-> FALSE, status |-> 0, raised |-> raised]
            /\ outcome' = raised
            /\ IF raised = "none"
               THEN pc' = "block" /\ dir' = SwitchDirEnter(dir, EXPERIMENT_ROOT)
               ELSE UNCHANGED <<pc, dir>>
    /\ pre' = fs
    /\ lastop' = "Experiment.run"
    /\ UNCHANGED <<fs, made, exp, source, config, ecvars, req, store, libvars>>

\* subprocess.run(self.command) in the block: the command runs and exits
\* with any status, perhaps leaving a file, or it cannot be started
RunSubprocess ==
    /\ pc = "block"
    /\ \/ /\ \E status \in ExitStatus :
                 call' = [call EXCEPT !.started = TRUE, !.status = status]
          /\ \/ UNCHANGED <<fs, made>>
             \/ /\ fs' = [fs EXCEPT !.files = @ \cup {X}]
                /\ made' = Touched
       \/ /\ call' = [call EXCEPT !.raised = "FileNotFoundError"]
          /\ UNCHANGED <<fs, made>>
    /\ pc' = "exit"
    /\ pre' = fs'
    /\ UNCHANGED <<lastop, outcome, exp, dir, source, config, ecvars, req, store,
                 libvars>>

\* the block is left: switch_dir.__exit__, then run returns or raises
RunReturn ==
    /\ pc = "exit"
    /\ dir' = SwitchDirExit(dir, call.raised)
    /\ outcome' = call.raised
    /\ pc' = "idle"
    /\ UNCHANGED <<fs, pre, lastop, made, exp, call, source, config, ecvars, req,
                 store, libvars>>

\* Workspace(root).create_experiment(experiment_config, path) of pyrepcon
RepconCreate ==
    /\ pc = "idle"
    /\ LET r == RepconCreateExperiment(source, config, fs)
       IN  /\ fs' = r.fs
           /\ outcome' = r.exc
           /\ made' = IF r.exc = "none" THEN "no" ELSE made
    /\ pre' = fs
    /\ lastop' = "Workspace.create_experiment"
    /\ UNCHANGED exp
    /\ Quiet

\* the user, or an earlier run of the command, leaves a file in the
\* experiment directory
TouchFile ==
    /\ pc = "idle"
    /\ fs.kind = "dir"
    /\ X \notin fs.files
    /\ fs' = [fs EXCEPT !.files = @ \cup {X}]
    /\ pre' = fs'
    /\ lastop' = "touch"
    /\ outcome' = "none"
    /\ made' = Touched
    /\ UNCHANGED exp
    /\ Quiet

\* the user deletes a file of the experiment directory
DeleteFile ==
    /\ pc = "idle"
    /\ \E p \in fs.files :
        /\ fs' = [fs EXCEPT !.files = @ \ {p},
                            !.gitignore = IF p = GITIGNORE THEN <<>> ELSE @,
                            !.config = IF p = EXPERIMENT_CONFIG_FILE THEN NoConfig ELSE @]
        /\ pre' = fs'
        /\ lastop' = "delete"
        /\ outcome' = "none"
        /\ made' = Touched
        /\ UNCHANGED exp
        /\ Quiet

Next ==
    \/ Create
    \/ RepconCreate
    \/ Open
    \/ Validate
    \/ RunCall
    \/ RunSubprocess
    \/ RunReturn
    \/ TouchFile
    \/ DeleteFile

Spec == Init /\ [][Next]_vars

(***************************************************************************)
(* Specification SpecWorkspace: a workspace is asked for an experiment,    *)
(* through PyrexWorkspace.create_experiment or the pyrex-experiment        *)
(* script, at the path its template gives.                                 *)
(***************************************************************************)
Templates ==
    { <<"{workspace_root}", "/", "out">>, <<"/", "w", "/", "out">>,
      <<"{repo_root}", "/", "out">>, <<"out">>, <<".", "/", "out">>,
      <<"{workspace_name}", "/", "out">>, <<"{branch}", "/", "out">>,
      <<"{version}">>, <<"{repo_name}", "/", "out">>, <<"{timestamp}">> }

\* the place a path names for the process: a relative path starts at the
\* working directory
Destination(path) == IF IsAbsolute(path) THEN path ELSE JoinPath(dir.cwd, path)

\* the experiment directory is the one the requests are for
ForExperimentRoot(parsed) ==
    parsed.exc = "none" => SamePath(Destination(parsed.path), EXPERIMENT_ROOT)

WsIdle == UNCHANGED <<source, config, ecvars, exp, dir, pc, call, store, libvars>>

\* PyrexWorkspace(workdir).create_experiment(name, "", experiment_path, prompt)
WsCreate ==
    \E known, explicit, proceed \in BOOLEAN :
        LET template == req.template
            ctx == req.ctx
            r == WorkspaceCreateExperiment(source, config, fs, known, explicit,
                                           template, ctx, proceed)
        IN  /\ ForExperimentRoot(r.parsed)
            /\ fs' = r.fs
            /\ pre' = fs
            /\ outcome' = r.exc
            /\ lastop' = "PyrexWorkspace.create_experiment"
            /\ req' = Request(explicit, template, ctx, r.parsed)
            /\ made' = IF r.exc = "none" THEN "no" ELSE made
            /\ WsIdle

\* pyrex-experiment [--output PATH] [--yes] NAME
ScriptCreateCall ==
    \E explicit, proceed \in BOOLEAN :
        LET template == req.template
            ctx == req.ctx
            r == ScriptCreate(source, config, fs, explicit, template, ctx, proceed)
        IN  /\ ForExperimentRoot(r.parsed)
            /\ fs' = r.fs
            /\ pre' = fs
            /\ outcome' = r.exc
            /\ lastop' = "scripts.experiment.create"
            /\ req' = Request(explicit, template, ctx, r.parsed)
            /\ made' = IF r.exc = "none" THEN "no" ELSE made
            /\ WsIdle

\* pyrepcon's Workspace(root).create_named_experiment(name, path)
RepconCreateNamed ==
    \E known, explicit \in BOOLEAN :
        LET template == req.template
            ctx == req.ctx
            r == CreateNamedExperiment(fs, known, explicit, template,
                                       <<"trial">>, ctx)
        IN  /\ fs' = r.fs
            /\ pre' = fs
            /\ outcome' = r.exc
            /\ lastop' = "Workspace.create_named_experiment"
            /\ req' = Request(explicit, template, ctx, r.parsed)
            /\ UNCHANGED made
            /\ WsIdle

\* the workspace's config holds the template, git tells the context
WorkspaceInit ==
    /\ ec_args = [cls |-> "none", command |-> <<>>, files |-> <<>>, exec_dir |-> <<>>]
    /\ ec_out = NoConfig
    /\ source \in SourceTrees
    /\ config \in Configs
    /\ fs \in {NoDir, EmptyDir, [NoDir EXCEPT !.kind = "file"],
               [EmptyDir EXCEPT !.files = {X}]}
    /\ pre = fs
    /\ lastop = "none"
    /\ outcome = "none"
    /\ made = "no"
    /\ exp = NoConfig
    /\ dir = [cwd |-> WORKSPACE_ROOT, saved |-> <<>>]
    /\ pc = "idle"
    /\ call = NoCall
    /\ req \in {Request(FALSE, t, ctx, NotParsed) : t \in Templates, ctx \in Contexts}
    /\ store = NoStore
    /\ LibIdle

WorkspaceNext == WsCreate \/ ScriptCreateCall \/ RepconCreateNamed

SpecWorkspace == WorkspaceInit /\ [][WorkspaceNext]_vars

(***************************************************************************)
(* Specification SpecStore: configs are written to a file.                 *)
(***************************************************************************)
StoreIdle ==
    UNCHANGED <<ecvars, source, config, fs, pre, lastop, outcome, made, exp,
                dir, pc, call, req, libvars>>

\* the file is missing, or holds what an earlier write left
StoreInit ==
    /\ FsIdle
    /\ LibIdle
    /\ ec_args = [cls |-> "none", command |-> <<>>, files |-> <<>>, exec_dir |-> <<>>]
    /\ ec_out = NoConfig
    /\ \E disk \in {NoFile} \cup {FileOf(Dumped("json", c).text) :
                                      c \in {d \in Dicts : Dumped("json", d).exc = "none"}} :
           store = [NoStore EXCEPT !.disk = disk, !.before = disk]

\* dump_config(contents, filepath, dumper), JSONConfigFile._update() or
\* WorkspaceConfig.dump(path) is called: the try block
DumpCall ==
    /\ store.pc = "idle"
    /\ \E fn \in Writers :
       \E dumper \in DumpersOf(fn), contents \in Dicts :
           store' = DumpBegin(store, fn, dumper, contents)
    /\ StoreIdle

\* the else clause opens the file
DumpOpen ==
    /\ store.pc = "serialized"
    /\ store' = DumpOpenFile(store)
    /\ StoreIdle

\* and writes the text
DumpWrite ==
    /\ store.pc = "open"
    /\ store' = DumpWriteFile(store)
    /\ StoreIdle

StoreNext == DumpCall \/ DumpOpen \/ DumpWrite

SpecStore == StoreInit /\ [][StoreNext]_vars

(***************************************************************************)
(* Specification SpecTemplate: a template is resolved, and resolved again, *)
(* by one of the three resolvers.  The values of the context are what git  *)
(* and the config give, so they can hold braces as well.                   *)
(***************************************************************************)
MaxTemplateLen == 2
MaxCalls == 2

TemplateAtoms ==
    {"/", "{repo_root}", "{workspace_root}", "{branch}", "{version}", "{name}",
     "{timestamp}", "{bogus}"}

TemplateStrings == SeqsUpTo(TemplateAtoms, MaxTemplateLen)

TemplateContexts ==
    [ingit : BOOLEAN,
     repo_root : {WORKSPACE_ROOT, <<"/", "{branch}">>},
     branch : {<<"main">>, <<"{name}">>},
     workspace_root : {WORKSPACE_ROOT, <<"/", "{version}">>},
     version : {<<"1">>, <<"{name}">>},
     author : {<<"me">>}]

TemplateIdle ==
    UNCHANGED <<ecvars, source, config, fs, pre, lastop, outcome, made, exp,
                dir, pc, call, req, store, nest, git, coll, scan, job, nav>>

TemplateInit ==
    /\ FsIdle
    /\ scan = NoScan /\ job = NoJob /\ nav = NoNav
    /\ coll = NoCollection
    /\ nest = NoNest
    /\ git = NoGit
    /\ store = NoStore
    /\ ec_args = [cls |-> "none", command |-> <<>>, files |-> <<>>, exec_dir |-> <<>>]
    /\ ec_out = NoConfig
    /\ tpl \in {[NoTemplate EXCEPT !.kind = k, !.template = t, !.ctx = c,
                                    !.name = <<"trial">>] :
                    k \in TemplateResolvers, t \in TemplateStrings,
                    c \in TemplateContexts}

\* the resolver is called with the template; time passes with every call
Resolve ==
    /\ Len(tpl.results) < MaxCalls
    /\ tpl' = [tpl EXCEPT
                  !.results = Append(@, ResolveTemplate(tpl.kind, tpl.template,
                                                        tpl.name, tpl.ctx,
                                                        tpl.clock)),
                  !.clock = @ + 1]
    /\ TemplateIdle

TemplateNext == Resolve

SpecTemplate == TemplateInit /\ [][TemplateNext]_vars

(***************************************************************************)
(* Specification SpecSwitch: with switch_dir(path) blocks inside one       *)
(* another.  Every with statement constructs its own switch_dir, so every  *)
(* open block has its own self.old.                                        *)
(***************************************************************************)
MaxDepth == 3

Directories == {HOME, WORKSPACE_ROOT, EXPERIMENT_ROOT}

\* a path that is no directory
NOWHERE == <<"/", "nowhere">>

\* what a block can raise
BlockRaises == {"none", "CalledProcessError"}

SwitchIdle ==
    UNCHANGED <<ecvars, source, config, fs, pre, made, exp, pc, call, req,
                store, tpl, git, coll, scan, job, nav>>

SwitchInit ==
    /\ FsIdle
    /\ scan = NoScan /\ job = NoJob /\ nav = NoNav
    /\ coll = NoCollection
    /\ git = NoGit
    /\ store = NoStore
    /\ tpl = NoTemplate
    /\ nest = NoNest
    /\ ec_args = [cls |-> "none", command |-> <<>>, files |-> <<>>, exec_dir |-> <<>>]
    /\ ec_out = NoConfig

\* with switch_dir(new): the constructor and __enter__
SwitchEnter ==
    /\ Len(dir.saved) < MaxDepth
    /\ \E new \in Directories \cup {NOWHERE} :
        LET raised == SwitchDirInit([kind |-> IF new \in Directories THEN "dir"
                                             ELSE "none"])
        IN  /\ outcome' = raised
            /\ IF raised = "none"
               THEN /\ dir' = SwitchDirEnter(dir, new)
                    /\ nest' = [nest EXCEPT !.open = Append(@, Block(dir.cwd, new))]
                    /\ lastop' = "switch_dir.__enter__"
               ELSE /\ lastop' = "switch_dir.__init__"
                    /\ UNCHANGED <<dir, nest>>
    /\ SwitchIdle

\* the innermost block ends, by its last statement or by an exception
SwitchExit ==
    /\ dir.saved # <<>>
    /\ \E raised \in BlockRaises :
        /\ dir' = SwitchDirExit(dir, raised)
        /\ outcome' = raised
    /\ nest' = [open |-> SubSeq(nest.open, 1, Len(nest.open) - 1),
                left |-> nest.open[Len(nest.open)]]
    /\ lastop' = "switch_dir.__exit__"
    /\ SwitchIdle

SwitchNext == SwitchEnter \/ SwitchExit

SpecSwitch == SwitchInit /\ [][SwitchNext]_vars

(***************************************************************************)
(* Specification SpecGit: the detection operations are called at a place.  *)
(***************************************************************************)
MaxCommits == 1

Places ==
    {Place(FALSE, 0, "", FALSE)} \cup
    {Place(TRUE, n, b, d) :
         n \in 0..MaxCommits, b \in {"main", "dev"}, d \in BOOLEAN}

GitIdle ==
    UNCHANGED <<ecvars, source, config, fs, pre, lastop, outcome, made, exp,
                dir, pc, call, req, store, tpl, nest, coll, scan, job, nav>>

GitInit ==
    /\ FsIdle
    /\ scan = NoScan /\ job = NoJob /\ nav = NoNav
    /\ coll = NoCollection
    /\ store = NoStore
    /\ tpl = NoTemplate
    /\ nest = NoNest
    /\ ec_args = [cls |-> "none", command |-> <<>>, files |-> <<>>, exec_dir |-> <<>>]
    /\ ec_out = NoConfig
    /\ git \in {[NoGit EXCEPT !.env = e] : e \in Places}

\* one of the detection operations is called
DetectCall ==
    /\ Len(git.results) < MaxCalls
    /\ \E op \in Detections :
           git' = [git EXCEPT
                      !.results = Append(@, [op |-> op, got |-> Detect(op, git.env)])]
    /\ GitIdle

GitNext == DetectCall

SpecGit == GitInit /\ [][GitNext]_vars

(***************************************************************************)
(* Specification SpecNames: entries are added to a collection.             *)
(***************************************************************************)
MaxNames == 2

Names == {<<>>, <<"n">>, <<"m">>, <<"n", " ", "m">>}

\* two instances of the config class, and an object that is neither one
\* nor something json can serialize
EntryValues == {"one", "two", "obj"}

NamesIdle ==
    UNCHANGED <<ecvars, source, config, fs, pre, lastop, outcome, made, exp,
                dir, pc, call, req, store, tpl, nest, git, scan, job, nav>>

NamesInit ==
    /\ FsIdle
    /\ scan = NoScan /\ job = NoJob /\ nav = NoNav
    /\ store = NoStore
    /\ tpl = NoTemplate
    /\ nest = NoNest
    /\ git = NoGit
    /\ ec_args = [cls |-> "none", command |-> <<>>, files |-> <<>>, exec_dir |-> <<>>]
    /\ ec_out = NoConfig
    /\ coll \in {[NoCollection EXCEPT !.kind = k] : k \in Collections}

\* collection[key] = value, or config.add_named_experiment(key, value)
SetItem ==
    /\ Cardinality(DOMAIN coll.elements) < MaxNames
    /\ \E key \in Names, value \in EntryValues :
        LET r == AddEntry(coll.kind, coll.elements, key, value)
        IN  coll' = [coll EXCEPT !.elements = r.elements,
                                 !.before = coll.elements,
                                 !.disk = IF coll.kind = "JSONConfigFile"
                                             /\ r.exc = "none"
                                          THEN r.elements ELSE @,
                                 !.key = key, !.exc = r.exc]
    /\ NamesIdle

NamesNext == SetItem

SpecNames == NamesInit /\ [][NamesNext]_vars

(***************************************************************************)
(* Specification SpecScan: check_for_files is called, as check_files calls *)
(* it, without `additional`, on a directory that does not change.  The     *)
(* list of the default is made once, when the function is defined, and     *)
(* every such call appends to it.                                          *)
(***************************************************************************)
MaxUnexpected == 12
MaxSubUnexpected == 1

\* a file neither expected nor in the directory
M == <<"m">>

\* the names of the files nobody expects
UNEXPECTED ==
    <<"u1", "u2", "u3", "u4", "u5", "u6", "u7", "u8", "u9", "u10", "u11",
      "u12", "u13", "u14">>

\* s with x put in after its first k elements
InsertAt(s, k, x) == SubSeq(s, 1, k) \o <<x>> \o SubSeq(s, k + 1, Len(s))

\* the listings of a directory with n unexpected files under `under` and
\* perhaps each of the entries in `others`, in any place
RECURSIVE WithEntries(_, _)
WithEntries(listings, others) ==
    IF others = {} THEN listings
    ELSE LET x == CHOOSE o \in others : TRUE
             more == UNION {{InsertAt(l, k, x) : k \in 0..Len(l)} : l \in listings}
         IN  WithEntries(listings \cup more, others \ {x})

TopListings ==
    WithEntries({[i \in 1..n |-> <<UNEXPECTED[i]>>] : n \in 0..MaxUnexpected}, {A, D})

SubListings ==
    WithEntries({[i \in 1..n |-> JoinPath(D, <<UNEXPECTED[i]>>)] :
                     n \in 0..MaxSubUnexpected}, {DC})

Trees ==
    {Listing(top, sub) : top \in TopListings, sub \in SubListings}

ExpectedLists == {<<>>, <<A>>, <<A, DC>>, <<DC, M>>}

ScanIdle ==
    UNCHANGED <<ecvars, source, config, fs, pre, lastop, outcome, made, exp,
                dir, pc, call, req, store, tpl, nest, git, coll, job, nav>>

ScanInit ==
    /\ FsIdle
    /\ store = NoStore
    /\ tpl = NoTemplate /\ nest = NoNest /\ git = NoGit /\ coll = NoCollection
    /\ job = NoJob /\ nav = NoNav
    /\ ec_args = [cls |-> "none", command |-> <<>>, files |-> <<>>, exec_dir |-> <<>>]
    /\ ec_out = NoConfig
    /\ scan \in {[NoScan EXCEPT !.tree = t, !.expected = e] :
                     t \in {tr \in Trees : D \in Range(tr.top) \/ tr.sub = <<>>},
                     e \in ExpectedLists}

\* utils.check_for_files(root, files) with a new list of the files
ScanCall ==
    /\ Len(scan.results) < MaxCalls
    /\ LET r == CheckForFiles(scan.tree, scan.expected, scan.default)
       IN  scan' = [scan EXCEPT !.default = r.additional,
                                !.results = Append(@, r)]
    /\ ScanIdle

ScanNext == ScanCall

SpecScan == ScanInit /\ [][ScanNext]_vars

(***************************************************************************)
(* Specification SpecMaterialize: Experiment.create or                     *)
(* PyrexWorkspace.create_experiment runs statement by statement, and any   *)
(* statement that touches the disk can fail with OSError.                  *)
(***************************************************************************)
MaterializeIdle ==
    UNCHANGED <<ecvars, source, config, lastop, outcome, made, dir, pc, call,
                req, store, tpl, nest, git, coll, scan, nav>>

\* the source may be an experiment directory, and the files its config
\* requires then include its config file
MaterializePaths == {A, DC, EXPERIMENT_CONFIG_FILE}

MaterializeConfigs ==
    UNION {ExperimentConfig(<<"x">>, files, <<".">>) :
               files \in SeqsUpTo(MaterializePaths, MaxRequired + 1)}

MaterializeInit ==
    /\ ec_args = [cls |-> "none", command |-> <<>>, files |-> <<>>, exec_dir |-> <<>>]
    /\ ec_out = NoConfig
    /\ source \in [files : SUBSET MaterializePaths, dirs : {{D}}]
    /\ config \in MaterializeConfigs
    /\ fs \in {NoDir, EmptyDir, [NoDir EXCEPT !.kind = "file"],
               [EmptyDir EXCEPT !.files = {X}]}
    /\ pre = fs
    /\ lastop = "none"
    /\ outcome = "none"
    /\ made = "no"
    /\ exp = NoConfig
    /\ dir = [cwd |-> WORKSPACE_ROOT, saved |-> <<>>]
    /\ pc = "idle"
    /\ call = NoCall
    /\ req = NoRequest
    /\ store = NoStore
    /\ tpl = NoTemplate /\ nest = NoNest /\ git = NoGit /\ coll = NoCollection
    /\ scan = NoScan /\ nav = NoNav
    /\ job = NoJob

\* the call, up to the prompt: the checks of the destination and of the
\* required files raise before anything is written
MaterializeBegin ==
    /\ job.pc = "idle"
    /\ \E op \in {"Experiment.create", "PyrexWorkspace.create_experiment"},
          proceed \in BOOLEAN, ctx \in Contexts :
        LET exc == IF op = "Experiment.create"
                   THEN ExperimentCreate(source, config, fs, proceed).exc
                   ELSE WorkspaceCreateExperiment(source, config, fs, TRUE, TRUE,
                                                  <<>>, ctx, proceed).exc
        IN  job' = [NoJob EXCEPT !.op = op, !.exc = exc,
                                 !.pc = IF exc = "none" THEN Statements(op)[1]
                                        ELSE "raised"]
    /\ UNCHANGED <<fs, pre, exp>>
    /\ MaterializeIdle

\* the statement the call is at runs to its end; the loop over the files
\* is left when all are copied
MaterializeStatement ==
    /\ job.pc \in {"mkdir", "copy", "gitignore", "config", "readme"}
    /\ IF job.pc = "copy" /\ job.copied = Len(config.files)
       THEN /\ job' = [job EXCEPT !.pc = After(job.op, "copy")]
            /\ UNCHANGED fs
       ELSE /\ fs' = Executed(job.op, job.pc, config, fs, job.copied)
            /\ job' = [job EXCEPT
                          !.pc = IF job.pc = "copy" THEN "copy"
                                 ELSE After(job.op, job.pc),
                          !.copied = IF job.pc = "copy" THEN @ + 1 ELSE @,
                          !.created = TRUE]
    /\ UNCHANGED <<pre, exp>>
    /\ MaterializeIdle

\* the statement the call is at fails
MaterializeRaise ==
    /\ job.pc \in {"mkdir", "copy", "gitignore", "config", "readme"}
    /\ ~(job.pc = "copy" /\ job.copied = Len(config.files))
    /\ \E left \in Opened(job.op, job.pc, fs) : fs' = RaisedLeaves(left, pre)
    /\ job' = [job EXCEPT !.pc = "raised", !.exc = "OSError"]
    /\ UNCHANGED <<pre, exp>>
    /\ MaterializeIdle

\* return cls(dest): the handle on the new directory
MaterializeReturn ==
    /\ job.pc = "return"
    /\ IF job.op = "Experiment.create"
       THEN \E e \in ExperimentOpen(fs) :
                /\ exp' = IF e.exc = "none" THEN e ELSE exp
                /\ job' = [job EXCEPT
                              !.pc = IF e.exc = "none" THEN "done" ELSE "raised",
                              !.exc = e.exc, !.returned = e.exc = "none"]
       ELSE /\ job' = [job EXCEPT !.pc = "done", !.returned = TRUE]
            /\ UNCHANGED exp
    /\ UNCHANGED <<fs, pre>>
    /\ MaterializeIdle

MaterializeNext ==
    \/ MaterializeBegin
    \/ MaterializeStatement
    \/ MaterializeRaise
    \/ MaterializeReturn

SpecMaterialize == MaterializeInit /\ [][MaterializeNext]_vars

(***************************************************************************)
(* Specification SpecPaths: one call that searches the parents of a path   *)
(* for a workspace, or computes the relative path from one directory to    *)
(* another.                                                                *)
(***************************************************************************)
MaxNavDepth == 2

DirNames == {"p", "q"}

\* the resolved absolute paths
Dirs == SeqsUpTo(DirNames, MaxNavDepth)

\* a directory and the directories above it
SelfAndAncestors(p) == Range(PathParents(p))

\* self._workdir.joinpath(workspace_root) of PyrexWorkspace.__init__
WorkspaceRoots == {workdir \o rel : workdir \in Dirs, rel \in {<<>>, <<UP>>}}

PathsIdle ==
    UNCHANGED <<ecvars, source, config, fs, pre, lastop, outcome, made, exp,
                dir, pc, call, req, store, tpl, nest, git, coll, scan, job>>

\* the calls of the three search_parents: the workspace config file is in
\* some of the directories on the way up, and a pyproject.toml matters to
\* WorkspaceInput only
SearchCalls ==
    UNION {{[NoNav EXCEPT !.op = op, !.path = path, !.home = home, !.has = has,
                          !.pyproject = pyproject, !.pc = "called"] :
                op \in SearchOps, home \in Dirs,
                has \in SUBSET SelfAndAncestors(path),
                pyproject \in {{}, {path}}} : path \in Dirs}

\* git reports the repository the workspace root is in, if any
PathCalls ==
    UNION {{[NoNav EXCEPT !.op = "PyrexWorkspace._workspace_path",
                          !.path = path, !.other = root, !.ingit = TRUE,
                          !.repo = repo, !.pc = "called"] :
                path \in Dirs, repo \in SelfAndAncestors(ResolvePath(root))}
           \cup
           {[NoNav EXCEPT !.op = "PyrexWorkspace._workspace_path",
                          !.path = path, !.other = root, !.pc = "called"] :
                path \in Dirs} : root \in WorkspaceRoots}
    \cup
    {[NoNav EXCEPT !.op = "compute_relative_path", !.path = from_,
                   !.other = to, !.pc = "called"] :
        from_ \in Dirs, to \in Dirs}

PathsInit ==
    /\ ec_args = [cls |-> "none", command |-> <<>>, files |-> <<>>, exec_dir |-> <<>>]
    /\ ec_out = NoConfig
    /\ source = [files |-> {}, dirs |-> {D}]
    /\ config = ConfigOk(<<"x">>, <<>>)
    /\ fs = NoDir
    /\ pre = NoDir
    /\ lastop = "none"
    /\ outcome = "none"
    /\ made = "no"
    /\ exp = NoConfig
    /\ dir = [cwd |-> WORKSPACE_ROOT, saved |-> <<>>]
    /\ pc = "idle"
    /\ call = NoCall
    /\ req = NoRequest
    /\ store = NoStore
    /\ tpl = NoTemplate /\ nest = NoNest /\ git = NoGit /\ coll = NoCollection
    /\ scan = NoScan /\ job = NoJob
    /\ nav \in {c \in SearchCalls :
                   c.op # "WorkspaceInput.search_parents" => c.pyproject = {}}
               \cup PathCalls

\* search_dir = path, before the loop
SearchEnter ==
    /\ nav.pc = "called"
    /\ nav.op \in SearchOps
    /\ nav' = [nav EXCEPT !.search_dir = nav.path, !.pc = "loop"]
    /\ PathsIdle

\* the loop test fails: raise InvalidWorkspaceError
SearchRaise ==
    /\ nav.pc = "loop"
    /\ ~SearchGoesOn(nav.search_dir, nav.home)
    /\ nav' = [nav EXCEPT !.pc = "raised", !.exc = "InvalidWorkspaceError"]
    /\ PathsIdle

\* the config file is in search_dir: return cls(search_dir)
SearchReturn ==
    /\ nav.pc = "loop"
    /\ SearchGoesOn(nav.search_dir, nav.home)
    /\ nav.search_dir \in nav.has
    /\ nav' = [nav EXCEPT !.pc = "returned", !.got = nav.search_dir]
    /\ PathsIdle

\* it is not: search_dir = search_dir.parent.  With a pyproject.toml
\* WorkspaceInput tries load_from_pyproject, which raises
\* NotImplementedError, and passes.
SearchParent ==
    /\ nav.pc = "loop"
    /\ SearchGoesOn(nav.search_dir, nav.home)
    /\ nav.search_dir \notin nav.has
    /\ nav' = [nav EXCEPT !.search_dir = PathParent(nav.search_dir)]
    /\ PathsIdle

\* the whole of _workspace_path or compute_relative_path
PathCall ==
    /\ nav.pc = "called"
    /\ nav.op \notin SearchOps
    /\ LET r == IF nav.op = "compute_relative_path"
                THEN ComputeRelativePath(nav.path, nav.other)
                ELSE WorkspacePath(nav.path, nav.other, nav.ingit, nav.repo)
       IN  nav' = [nav EXCEPT !.pc = IF r.exc = "none" THEN "returned" ELSE "raised",
                              !.exc = r.exc, !.absolute = r.absolute,
                              !.got = r.got]
    /\ PathsIdle

PathsNext ==
    \/ SearchEnter
    \/ SearchRaise
    \/ SearchReturn
    \/ SearchParent
    \/ PathCall

SpecPaths == PathsInit /\ [][PathsNext]_vars

\* the scheduling of a running call: the loop goes on
SpecPathsFair == SpecPaths /\ WF_vars(PathsNext)

(***************************************************************************)
(* Properties.                                                             *)
(***************************************************************************)
\* position i of the path holds a whole segment ".."
ParentSegmentAt(s, i) ==
    /\ s[i] = ".."
    /\ i = 1 \/ s[i - 1] = "/"
    /\ i = Len(s) \/ s[i + 1] = "/"

\* the path is absolute or has a ".." segment
Unsafe(s) == (s # <<>> /\ s[1] = "/") \/ \E i \in DOMAIN s : ParentSegmentAt(s, i)

\* C1: constructing an ExperimentConfig whose file list holds an absolute
\* path or a path with a ".." segment raises InvalidExperimentError; an
\* instance holds no such path, and its paths are paths that were given.
C1_PathSafety ==
    ec_args.cls # "none" =>
        /\ (\E i \in DOMAIN ec_args.files : Unsafe(ec_args.files[i]))
               => ec_out.exc = "InvalidExperimentError"
        /\ ec_out.exc = "none" =>
               \A i \in DOMAIN ec_out.files :
                   /\ ~Unsafe(ec_out.files[i])
                   /\ ec_out.files[i] \in Range(ec_args.files)

\* a relative path with a ".." segment was given with a good command, and
\* the construction raised for it
C1_Witness ==
    /\ ec_args.cls = "pyrex"
    /\ ec_args.command = <<"x">>
    /\ ec_args.exec_dir = <<".">>
    /\ \E i \in DOMAIN ec_args.files : ec_args.files[i] = <<"..", "/">>
    /\ \A i \in DOMAIN ec_args.files : ec_args.files[i][1] # "/"
    /\ ec_out.exc = "InvalidExperimentError"
    /\ ec_out.msg = "parent"

\* the operations that materialize an experiment from a config
Materializations == {"Experiment.create", "Workspace.create_experiment"}

\* a file of the config is missing from the source, or is a directory
RequiredFileMissing ==
    \E i \in DOMAIN config.files : config.files[i] \notin source.files

\* C2: if a required file is missing from the source or is a directory,
\* the materialization fails and the destination is as it was before: no
\* directory was created and no file was copied.
C2_FailsBeforeDestination ==
    (lastop \in Materializations /\ RequiredFileMissing)
        => (outcome # "none" /\ fs = pre)

\* C3: a materialization fails with FileExistsError exactly when the
\* destination was a non-empty directory, and it then changes nothing; an
\* empty directory is accepted.
C3_ConflictIffNonEmpty ==
    lastop \in Materializations =>
        /\ (outcome = "FileExistsError") <=> (pre.kind = "dir" /\ HasEntries(pre))
        /\ outcome = "FileExistsError" => fs = pre

\* C4: validating a directory that a successful Experiment.create has just
\* made, and that nothing has touched since, passes without error.
C4_FreshValidates ==
    (lastop = "Experiment.validate_workdir" /\ made = "fresh")
        => outcome = "none"

\* C5: run without skip_validation on a materialized directory that lacks a
\* file of its manifest raises InvalidExperimentError, and the subprocess is
\* never started.
C5_RunBlocksOnMissing ==
    (lastop = "Experiment.run" /\ made # "no" /\ ~call.skip /\ call.missing)
        => (pc = "idle" /\ outcome = "InvalidExperimentError" /\ ~call.started)

C7_CwdRestored ==
    (lastop = "Experiment.run" /\ pc = "idle")
        => (dir.cwd = call.cwd /\ dir.saved = <<>>)

\* a run entered the block from HOME, the subprocess could not be started,
\* and the run raised
C7_Witness ==
    /\ lastop = "Experiment.run"
    /\ pc = "idle"
    /\ call.cwd = HOME
    /\ call.raised = "FileNotFoundError"
    /\ outcome = "FileNotFoundError"
    /\ dir.cwd = HOME

\* the operations that make an experiment at the path of a template
TemplateOperations ==
    {"PyrexWorkspace.create_experiment", "scripts.experiment.create"}

\* C8: when the replacements of the template are done and the path they
\* give is relative, the operation raises InvalidPathError and the
\* destination is as it was: nothing was created, copied or written.
C8_RelativeRejected ==
    (lastop \in TemplateOperations
       /\ req.parsed.exc \in {"none", "InvalidPathError"}
       /\ ~IsAbsolute(req.parsed.path))
        => (outcome = "InvalidPathError" /\ fs = pre)

\* the template without a root token was resolved for a request that had
\* all its files and a free destination, and the request was refused
C8_Witness ==
    /\ lastop = "PyrexWorkspace.create_experiment"
    /\ req.template = <<"out">>
    /\ req.ctx.ingit
    /\ ~RequiredFileMissing
    /\ config.files # <<>>
    /\ pre.kind = "none"
    /\ fs.kind = "none"
    /\ outcome = "InvalidPathError"

\* C9: when the serialization of the contents fails, the file is what it
\* was before the call and it was never opened for writing.
C9_FailedWriteLeavesFile ==
    (store.fn # "none" /\ store.cause # "none")
        => (store.disk = store.before /\ ~store.opened /\ store.pc = "idle")

\* dump_config was called on a file with text in it and raised
\* InvalidConfigError for an object json could not serialize
C9_Witness ==
    /\ store.fn = "dump_config"
    /\ store.cause = "TypeError"
    /\ store.exc = "InvalidConfigError"
    /\ store.before.exists
    /\ store.before.text # <<"{", "}">>
    /\ store.disk = store.before

\* the lines "!path" of the required files and the two provenance files
RequiredLines(files) ==
    {<<"!">> \o q : q \in Range(files) \cup {EXPERIMENT_CONFIG_FILE, GITIGNORE}}

\* C10: the .gitignore of a materialized experiment is the line "*" and
\* then one line "!path" for each required file, the config file and
\* .gitignore, and no other line.
C10_GitignoreLines ==
    (lastop = "Experiment.create" /\ outcome = "none") =>
        LET ls == Lines(fs.gitignore)
        IN  /\ Len(ls) = 1 + Cardinality(RequiredLines(config.files))
            /\ ls[1] = <<"*">>
            /\ {ls[i] : i \in 2..Len(ls)} = RequiredLines(config.files)

\* every atom of the text is a blank
Blank(s) == \A i \in DOMAIN s : s[i] = " "

\* C11: constructing an ExperimentConfig whose command is empty or only
\* blanks raises InvalidExperimentError, and the command of an instance is
\* not empty after trimming.
C11_CommandNonEmpty ==
    ec_args.cls # "none" =>
        /\ Blank(ec_args.command) => ec_out.exc = "InvalidExperimentError"
        /\ ec_out.exc = "none" => ~Blank(ec_out.command)

\* the list names a path twice
HasDuplicates(list) == \E i, j \in DOMAIN list : i # j /\ list[i] = list[j]

\* C12: constructing an ExperimentConfig whose file list, otherwise valid,
\* names a path twice succeeds, and the stored list holds each distinct
\* path exactly once.
C12_DuplicatesDropped ==
    (/\ ec_args.cls # "none"
     /\ ~Blank(ec_args.command)
     /\ ~Unsafe(ec_args.exec_dir)
     /\ \A i \in DOMAIN ec_args.files : ~Unsafe(ec_args.files[i])
     /\ HasDuplicates(ec_args.files))
        => /\ ec_out.exc = "none"
           /\ ~HasDuplicates(ec_out.files)
           /\ Range(ec_out.files) = Range(ec_args.files)

\* the operations that take a destination from the caller or from the
\* template
DestinationOperations ==
    TemplateOperations \cup {"Workspace.create_named_experiment"}

\* the path the template of the request gives to the operation
TemplatePath(op) ==
    IF op = "PyrexWorkspace.create_experiment"
    THEN ParseExperimentPath(req.template, req.ctx)
    ELSE IF op = "scripts.experiment.create"
    THEN ScriptOutputPath(req.template, <<"trial">>, req.ctx)
    ELSE DefaultExperimentPath(req.template, <<"trial">>, req.ctx)

\* C13: an operation that got as far as choosing the destination takes the
\* caller's path when one was given, fails with no error of the template
\* then, and makes the experiment there when it succeeds; it takes the path
\* of the template when the caller gave none.
C13_ExplicitWins ==
    (lastop \in DestinationOperations /\ req.parsed.exc # "unreached")
        => IF req.explicit
           THEN /\ req.parsed.exc \notin {"InvalidPathError", "AttributeError"}
                /\ req.parsed.exc = "none" => req.parsed.path = EXPERIMENT_ROOT
                /\ outcome = "none" => (fs.kind = "dir" /\ HasEntries(fs))
           ELSE req.parsed = TemplatePath(lastop)

\* one pass over the template: each atom that is a key of `values` gives
\* its value, and the text put in is not looked at again
SubstituteOnce(template, values) ==
    Join(<<>>, [i \in DOMAIN template |->
                    IF template[i] \in DOMAIN values THEN values[template[i]]
                    ELSE <<template[i]>>])

\* the tokens each resolver knows, with the values it gives them
TokenValues(kind, experiment_name, ctx) ==
    IF kind = "PyrexWorkspace.parse_experiment_path"
    THEN [k \in {"{repo_root}", "{workspace_root}", "{workspace_name}",
                 "{branch}", "{version}"} |->
              CASE k = "{repo_root}" -> RepoRootText(ctx)
                [] k = "{workspace_root}" -> ctx.workspace_root
                [] k = "{workspace_name}" -> Name(ctx.workspace_root)
                [] k = "{branch}" -> ctx.branch
                [] k = "{version}" -> ctx.version]
    ELSE IF kind = "scripts.experiment.create"
    THEN [k \in {"{workspace_root}", "{workspace_name}", "{version}",
                 "{repo_root}", "{repo_name}", "{branch}", "{author}",
                 "{name}"} |->
              CASE k = "{workspace_root}" -> ctx.workspace_root
                [] k = "{workspace_name}" -> Name(ctx.workspace_root)
                [] k = "{version}" -> ctx.version
                [] k = "{repo_root}" -> ctx.repo_root
                [] k = "{repo_name}" -> Name(ctx.repo_root)
                [] k = "{branch}" -> ctx.branch
                [] k = "{author}" -> ctx.author
                [] k = "{name}" -> experiment_name]
    ELSE [k \in {"{version}", "{name}"} |->
              IF k = "{version}" THEN ctx.version ELSE experiment_name]

\* the path one pass over the template gives the resolver
OnePass(kind, template, experiment_name, ctx) ==
    LET once == SubstituteOnce(template, TokenValues(kind, experiment_name, ctx))
    IN  IF kind = "Workspace.get_default_experiment_path"
        THEN Join(<<"/">>, <<ctx.workspace_root>> \o Parts(once))
        ELSE once

\* C14: a resolution that runs to its end gives the path of one pass over
\* the template, so a token inside a value that was put in stands in the
\* result as it is.
C14_NoRescan ==
    \A i \in DOMAIN tpl.results :
        tpl.results[i].exc \in {"none", "InvalidPathError"}
            => tpl.results[i].path =
                   OnePass(tpl.kind, tpl.template, tpl.name, tpl.ctx)

\* how often the token stands in the text
Count(s, token) == Cardinality({i \in DOMAIN s : s[i] = token})

\* C15: a template with the unknown token {bogus} resolves as the template
\* with a plain name in its place does: the same error or none, and the
\* same path with {bogus} standing where the name stands.
C15_UnknownTokenKept ==
    Has(tpl.template, "{bogus}") =>
        \A i \in DOMAIN tpl.results :
            LET r == tpl.results[i]
                plain == ResolveTemplate(tpl.kind,
                                         Replace(tpl.template, "{bogus}", <<"b">>),
                                         tpl.name, tpl.ctx, i - 1)
            IN  /\ r.exc = plain.exc
                /\ r.path = Replace(plain.path, "b", <<"{bogus}">>)
                /\ r.exc \in {"none", "InvalidPathError"}
                      => Count(r.path, "{bogus}") = Count(tpl.template, "{bogus}")

\* a template with {bogus} in it was resolved without error and the token
\* is in the path
C15_Witness ==
    /\ tpl.kind = "PyrexWorkspace.parse_experiment_path"
    /\ tpl.template = <<"/", "{bogus}">>
    /\ tpl.results # <<>>
    /\ tpl.results[1] = Resolved("none", <<"/", "{bogus}">>)

C17_NestedRestore ==
    lastop = "switch_dir.__exit__" =>
        /\ dir.cwd = nest.left.from
        /\ nest.open # <<>> => dir.cwd = nest.open[Len(nest.open)].to

\* from HOME a block went to the workspace, a block inside it went to the
\* experiment and was left by an exception
C17_Witness ==
    /\ lastop = "switch_dir.__exit__"
    /\ outcome = "CalledProcessError"
    /\ nest.open = <<Block(HOME, WORKSPACE_ROOT)>>
    /\ nest.left = Block(WORKSPACE_ROOT, EXPERIMENT_ROOT)
    /\ dir.cwd = WORKSPACE_ROOT

\* C18: the handle that a successful Experiment.create returns, and every
\* handle opened on the directory while nothing else has written to it, has
\* loaded the written config without error: the command is the config's,
\* and the files are, as a set, the config's files with the config file's
\* name and .gitignore.
C18_ConfigRoundTrip ==
    (/\ lastop \in {"Experiment.create", "Experiment.__init__"}
     /\ made = "fresh"
     /\ outcome = "none")
        => /\ exp.exc = "none"
           /\ exp.command = config.command
           /\ Range(exp.files) =
                  Range(config.files) \cup {EXPERIMENT_CONFIG_FILE, GITIGNORE}

\* an experiment with a required file was made and then opened again
C18_Witness ==
    /\ lastop = "Experiment.__init__"
    /\ made = "fresh"
    /\ outcome = "none"
    /\ config.files = <<A>>
    /\ Range(exp.files) = {A, EXPERIMENT_CONFIG_FILE, GITIGNORE}

\* every text of the value is None
Absent(value) == value # <<>> /\ \A i \in DOMAIN value : value[i] = "None"

\* C19: a detection at a place outside a git working tree, or whose git
\* call exited with a status other than 0, raises nothing and gives None.
C19_DetectionNeverRaises ==
    \A i \in DOMAIN git.results :
        LET r == git.results[i].got
        IN  (~git.env.inside \/ r.failed) => (r.exc = "none" /\ Absent(r.value))


\* C20: a call that adds an entry under the empty name, or under a name
\* the collection has, raises an error and leaves the collection as it
\* was, so the entry of that name keeps its value.
C20_NamesNonEmptyUnique ==
    (coll.exc # "unset"
       /\ (coll.key = <<>> \/ coll.key \in DOMAIN coll.before))
        => (coll.exc # "none" /\ coll.elements = coll.before)

\* C25: repo_is_dirty at a place with a commit gives True when the tree has
\* changes, so that diff-index exits with 1, and False when it has none.
C25_DirtyDetected ==
    \A i \in DOMAIN git.results :
        (git.results[i].op = "repo_is_dirty"
           /\ git.env.inside /\ git.env.commits > 0)
            => /\ git.results[i].got.exc = "none"
               /\ git.results[i].got.value =
                      IF git.env.dirty THEN <<"True">> ELSE <<"False">>

\* C24: validating an instance again raises nothing and gives the command
\* and the list of files it had, in the order it had them.
C24_RevalidationKeeps ==
    ec_args.cls = "dataclasses.replace" =>
        /\ ec_out.exc = "none"
        /\ ec_out.command = ec_args.command
        /\ ec_out.files = ec_args.files

\* C28: after a JSONConfigFile.__setitem__ that raised, the elements in
\* memory are what they were before the call and what the file holds.
C28_FailedSetItemKeeps ==
    (coll.kind = "JSONConfigFile" /\ coll.exc \notin {"unset", "none"})
        => (coll.elements = coll.before /\ coll.elements = coll.disk)

\* the files in the directory and under it
Present(tree) ==
    Range(tree.top) \cup (IF D \in Range(tree.top) THEN Range(tree.sub) ELSE {})

\* C22: the files a scan reports as not found are the expected files that
\* are nowhere in the directory, however many unexpected files it holds.
C22_MissingExact ==
    \A i \in DOMAIN scan.results :
        Range(scan.results[i].expected) =
            {e \in Range(scan.expected) : e \notin Present(scan.tree)}

\* C23: the list of unexpected files a scan returns has at most BREAK_AFTER
\* entries.
C23_UnexpectedCapped ==
    \A i \in DOMAIN scan.results :
        Len(scan.results[i].additional) <= BREAK_AFTER

\* C26: every scan of the unchanged directory for the same files, called
\* without `additional`, returns what the first one returned.
C26_DefaultCallsAgree ==
    \A i, j \in DOMAIN scan.results : scan.results[i] = scan.results[j]

\* C21: when a statement failed after the destination directory was made,
\* the directory is there with all that was in it before the call and
\* every file copied so far, and the call has returned no handle.
C21_NoRollback ==
    (job.pc = "raised" /\ job.created)
        => /\ fs.kind = "dir"
           /\ pre.files \subseteq fs.files
           /\ \A k \in 1..job.copied :
                  /\ config.files[k] \in fs.files
                  /\ ParentDirs(config.files[k]) \subseteq fs.dirs
           /\ ~job.returned
           /\ exp = NoConfig

\* the config file could not be written after the directory was made and
\* a required file copied into it
C21_Witness ==
    /\ job.op = "Experiment.create"
    /\ job.pc = "raised"
    /\ job.exc = "OSError"
    /\ job.copied = 1
    /\ pre.kind = "none"
    /\ GITIGNORE \in fs.files
    /\ EXPERIMENT_CONFIG_FILE \notin fs.files

\* C27: whenever the config file of the experiment is in the destination
\* of Experiment.create, every required file is there too, and .gitignore
\* has been written.
C27_MarkerLast ==
    (job.op = "Experiment.create" /\ EXPERIMENT_CONFIG_FILE \in fs.files)
        => /\ \A k \in DOMAIN config.files : config.files[k] \in fs.files
           /\ GITIGNORE \in fs.files

\* the statements that ran to the end leave what the call as a whole leaves
StatementsAgreeWithCall ==
    (job.pc = "done" /\ job.op = "Experiment.create")
        => fs = ExperimentCreate(source, config, pre, TRUE).fs

\* the directories the search is to look in: the start directory and
\* those above it that are the home directory or below it
Searched(path, home) ==
    {path} \cup {d \in SelfAndAncestors(path) : IsRelativeTo(d, home)}

\* C29: a finished search_parents has returned the nearest of the start
\* directory and its ancestors up to the home directory that holds the
\* workspace config file, or, when none does, raised InvalidWorkspaceError.
C29_NearestWorkspace ==
    (nav.op \in SearchOps /\ nav.pc \in {"returned", "raised"})
        => LET holding == Searched(nav.path, nav.home) \cap nav.has
           IN  IF holding = {}
               THEN nav.pc = "raised" /\ nav.exc = "InvalidWorkspaceError"
               ELSE /\ nav.pc = "returned"
                    /\ nav.got \in holding
                    /\ \A d \in holding : Len(d) <= Len(nav.got)

\* every call of search_parents comes to an end
SearchTerminates ==
    nav.op \in SearchOps ~> nav.pc \in {"returned", "raised"}

====
